---------------------------- MODULE Spec2Model ----------------------------
(***************************************************************************)
(* Verification model of the undersea exploration game.                    *)
(*                                                                         *)
(*   SpecScan    - one FishSchool's proximity scanner (hysteresis), with   *)
(*                 the events it emits recorded                            *)
(*   Spec        - the App session state: interactables, closest query,    *)
(*                 interact key, scan bookkeeping, game state              *)
(*   SpecFlock   - the boids simulation of one FishSchool                  *)
(*   SpecTerrain - generateTerrain, one grid cell per step                 *)
(*   SpecCascade - the placement cascade of one cell, on the draws of      *)
(*                 `rand` and of the vegetation density                    *)
(*   SpecTutorial - the TutorialOverlay: its step, its narration and the   *)
(*                 timers its narrations leave behind                      *)
(*   SpecDegenerate - generateTerrain on grids without cells, beside a     *)
(*                 FishSchool whose species has no agents                  *)
(*                                                                         *)
(* Lengths of the session part are in tenths of a world unit (so that 3.9  *)
(* is the integer 39); distances are compared through their squares, which *)
(* is what `sqrt(a) < r` means for r >= 0.  The boids are in thousandths   *)
(* of a unit, the terrain in units of 0.005.                               *)
(***************************************************************************)
EXTENDS Integers, Sequences, FiniteSets, TLC

VARIABLES
    \* ---- shared by the frame callbacks
    camera,          \* camera.position (tenths of a unit)
    isScanned,       \* isScannedRef.current of every FishSchool instance
    \* ---- SpecScan: the recording consumer of one scanner
    scanGroup,       \* the FishSchool instance under observation
    camLog,          \* the camera positions fed so far, one per frame
    scanLog,         \* the onScan calls so far: [frame, arg]
    \* ---- Spec: App state (as of the last render), refs, update queue
    app,             \* the useState values of App
    refs,            \* closestInteractableRef, interactedItemsRef, gameStateRef
    pending,         \* state updates queued by handlers, in order
    narrating,       \* a BioScanner narration is being spoken
    \* ---- Spec: the scene
    character,       \* characterRef.current.position (tenths of a unit)
    lastClosestId,   \* PlayerController's lastClosestId.current
    oxygenRef,       \* SurvivalSystem's oxygenRef.current
    framePc,         \* the frame callback that runs next
    lastQuery,       \* the last closest-interactable query: input and result
    \* ---- SpecFlock: the boids of one FishSchool instance
    species,         \* the species prop: id, count, speed, behavior
    boids,           \* the memoised agents: position, velocity, acceleration
    ticks,           \* the frames simulated so far
    divByZero,       \* a divideScalar(0) was executed in some tick
    flockError,      \* a tick read an agent the array does not hold
    override,        \* the last tick: the player, and every agent's reaction
    \* ---- SpecTerrain: one call of generateTerrain
    widthCount,      \* the widthCount argument
    depthCount,      \* the depthCount argument
    cursor,          \* loop position: the next cell <<x, z>> (in half cells)
    layout,          \* the lists built so far, and the record once returned
    claimedBy,       \* per visited cell, the cascade rules whose body ran
    returned,        \* generateTerrain has returned
    \* ---- SpecCascade: the placement cascade of one cell
    drawn,           \* the cell's rand, vegDensity and later draws
    \* ---- SpecTutorial: the TutorialOverlay component
    tutorial         \* its currentStep, queued updates, narration and timers

scanVars == <<scanGroup, camLog, scanLog>>

appVars == <<app, refs, pending, narrating, character, lastClosestId,
             oxygenRef, framePc, lastQuery>>

flockVars == <<species, boids, ticks, divByZero, flockError, override>>

terrainVars ==
    <<widthCount, depthCount, cursor, layout, claimedBy, returned, drawn>>

worldVars == <<flockVars, terrainVars, tutorial>>

sceneVars == <<camera, isScanned, scanVars, appVars>>

vars == <<sceneVars, worldVars>>

NULL == "null"

\* ------------------------------------------------------------------------
\* Vectors (THREE.Vector3 with integer components)
\* ------------------------------------------------------------------------
Vec(x, y, z) == <<x, y, z>>

VSub(a, b) == <<a[1] - b[1], a[2] - b[2], a[3] - b[3]>>

VAdd(a, b) == <<a[1] + b[1], a[2] + b[2], a[3] + b[3]>>

LengthSq(a) == a[1] * a[1] + a[2] * a[2] + a[3] * a[3]

\* |a - b|^2, the square of Vector3.distanceTo
DistSq(a, b) == LengthSq(VSub(a, b))

\* a length given in world units, in tenths
Tenths(n) == n * 10

\* ------------------------------------------------------------------------
\* Boids of one FishSchool instance (FishSchool.tsx)
\* ------------------------------------------------------------------------
\* Lengths are in thousandths of a world unit.  A THREE.Vector3 of the boids
\* is a record whose `nan` field says that its components are NaN: the one
\* operation of the tick that makes a NaN, 0 * (1 / 0), makes all three
\* components NaN, and every later operation on such a vector keeps them.
V3(x, y, z) == [x |-> x, y |-> y, z |-> z, nan |-> FALSE]

NaNVec == [x |-> 0, y |-> 0, z |-> 0, nan |-> TRUE]

Min(a, b) == IF a < b THEN a ELSE b

Max(a, b) == IF a > b THEN a ELSE b

\* a / b for b > 0, rounded to the nearest integer
Quot(a, b) ==
    IF a >= 0 THEN (2 * a + b) \div (2 * b) ELSE -((2 * (-a) + b) \div (2 * b))

RECURSIVE SqrtBetween(_, _, _)
SqrtBetween(n, lo, hi) ==
    IF lo >= hi THEN lo
    ELSE LET mid == (lo + hi + 1) \div 2
         IN  IF mid * mid <= n THEN SqrtBetween(n, mid, hi)
                               ELSE SqrtBetween(n, lo, mid - 1)

\* Math.sqrt, rounded down
Sqrt(n) == SqrtBetween(n, 0, 46340)

\* Vector3.add, Vector3.sub / subVectors
Add3(a, b) ==
    IF a.nan \/ b.nan THEN NaNVec ELSE V3(a.x + b.x, a.y + b.y, a.z + b.z)

Sub3(a, b) ==
    IF a.nan \/ b.nan THEN NaNVec ELSE V3(a.x - b.x, a.y - b.y, a.z - b.z)

LengthSq3(a) == a.x * a.x + a.y * a.y + a.z * a.z

\* Vector3.multiplyScalar(num / den), den > 0
Scale3(a, num, den) ==
    IF a.nan THEN NaNVec
    ELSE V3(Quot(a.x * num, den), Quot(a.y * num, den), Quot(a.z * num, den))

\* Vector3.length() || 1 of a vector that is not NaN
LengthOr1(a) == IF LengthSq3(a) = 0 THEN 1 ELSE Sqrt(LengthSq3(a))

\* diff.divideScalar(d) = diff.multiplyScalar(1 / d), d the length of diff in
\* thousandths; the result is a unit vector, in thousandths.  With d = 0 the
\* factor is Infinity and every component is 0 * Infinity = NaN.
DivideScalar(a, d) ==
    IF a.nan \/ d = 0 THEN NaNVec ELSE Scale3(a, 1000, d)

\* v.normalize().multiplyScalar(s): normalize() divides by length() || 1.
\* The length of a NaN vector is NaN, which is falsy: the components stay NaN.
NormalizeTo(a, s) ==
    IF a.nan THEN NaNVec ELSE Scale3(a, s, LengthOr1(a))

\* v.clampLength(min, max):
\*   divideScalar(length || 1).multiplyScalar(Math.max(min, Math.min(max, length)))
ClampLength(a, min, max) ==
    IF a.nan THEN NaNVec
    ELSE Scale3(a, Max(min, Min(max, Sqrt(LengthSq3(a)))), LengthOr1(a))

\* a.distanceTo(b) < r; a comparison with NaN is false
CloserThan(a, b, r) ==
    /\ ~a.nan /\ ~b.nan
    /\ LengthSq3(Sub3(a, b)) < r * r

\* a.distanceTo(b) > r
FartherThan(a, b, r) ==
    /\ ~a.nan /\ ~b.nan
    /\ LengthSq3(Sub3(a, b)) > r * r

\* a.distanceTo(b), in thousandths (for vectors that are not NaN)
DistanceTo(a, b) == Sqrt(LengthSq3(Sub3(a, b)))

\* SPECIES_DATA entries, the speed in thousandths; the model gives a group a
\* population of at most MaxCount.
MaxCount == 2

FlockSpecies ==
    { [id |-> "clownfish", speed |-> 80, behavior |-> "school"],
      [id |-> "shark",     speed |-> 50, behavior |-> "solitary"],
      [id |-> "jellyfish", speed |-> 10, behavior |-> "wander"] }

WithCount(sp, n) ==
    [id |-> sp.id, count |-> n, speed |-> sp.speed, behavior |-> sp.behavior]

\* Every species taken for the reactive one.
IsJellyAny(sp) == TRUE

IsJelly(sp) == sp.id = "jellyfish"

\* The draws of one agent the model makes: (Math.random() - 0.5) for x, y, z
\* and for vx, vy, vz, in quarters (-0.5, -0.25, 0 or 0.25).  Two agents may
\* draw the same point, an agent may draw three zeros for its velocity, the
\* second point is within the perception radius of the first, and the third
\* is farther than 5 from the group's origin.
BoidDraws ==
    { << <<0, 0, 0>>,    <<0, 0, 0>> >>,
      << <<0, 0, 0>>,    <<1, 0, 0>> >>,
      << <<0, 0, 0>>,    <<-2, 1, -2>> >>,
      << <<1, 0, 0>>,    <<-2, 1, -2>> >>,
      << <<-2, -2, -2>>, <<0, 1, 1>> >> }

\* x, y, z = (Math.random() - 0.5) * 8, * 4, * 8
InitPosition(p) == V3(p[1] * 2000, p[2] * 1000, p[3] * 2000)

\* new Vector3(vx, vy, vz).normalize().multiplyScalar(species.speed) with
\* vx, vy, vz = (Math.random() - 0.5) * speed, * speed * 0.1, * speed; the raw
\* vector is held in fortieths of a thousandth, where it is whole.
InitVelocity(v, sp) ==
    NormalizeTo(V3(v[1] * sp.speed * 10, v[2] * sp.speed, v[3] * sp.speed * 10),
                sp.speed)

NewBoid(p, v, sp) ==
    [position |-> InitPosition(p),
     velocity |-> InitVelocity(v, sp),
     acceleration |-> V3(0, 0, 0)]

\* the useMemo that builds the agents: one per i < species.count
InitBoids(sp) ==
    { [i \in 1..sp.count |-> NewBoid(d[i][1], d[i][2], sp)] :
         d \in [1..sp.count -> BoidDraws] }

\* alignment, cohesion, separation and centering weights, in tenths
Weights(behavior) ==
    CASE behavior = "solitary" ->
            [alignment |-> 1, cohesion |-> 0, separation |-> 30, centering |-> 1]
      [] behavior = "wander" ->
            [alignment |-> 5, cohesion |-> 8, separation |-> 13, centering |-> 5]
      [] OTHER ->
            [alignment |-> 10, cohesion |-> 20, separation |-> 13, centering |-> 5]

MaxSpeed(sp) == sp.speed

\* species.speed * 0.1
MaxForce(sp) == Quot(sp.speed, 10)

\* perceptionRadius, the centering distance, and the jellyfish's detection
\* and comfort distances, in thousandths
PerceptionRadius == 2500

CenterRadius == 5000

DetectRadius == 12000

ComfortRadius == 3000

NoNeighbours ==
    [alignment |-> V3(0, 0, 0), cohesion |-> V3(0, 0, 0),
     separation |-> V3(0, 0, 0), total |-> 0, divByZero |-> FALSE]

\* One pass of the inner loop body, for neighbour candidate `other`.
AddNeighbour(acc, current, other) ==
    IF CloserThan(current.position, other.position, PerceptionRadius)
    THEN LET diff == Sub3(current.position, other.position)
             d == DistanceTo(current.position, other.position)
         IN  [alignment |-> Add3(acc.alignment, other.velocity),
              cohesion |-> Add3(acc.cohesion, other.position),
              separation |-> Add3(acc.separation, DivideScalar(diff, d)),
              total |-> acc.total + 1,
              divByZero |-> acc.divByZero \/ d = 0]
    ELSE acc

\* The inner loop: for (j = 0; j < species.count; j++) if (i !== j) ...
RECURSIVE NeighbourScan(_, _, _, _, _)
NeighbourScan(bs, count, i, j, acc) ==
    IF j > count THEN acc
    ELSE NeighbourScan(bs, count, i, j + 1,
                       IF i # j THEN AddNeighbour(acc, bs[i], bs[j]) ELSE acc)

\* sum.divideScalar(total).normalize().multiplyScalar(maxSpeed)
\*    .sub(current.velocity).clampLength(0, maxForce)
\* (for cohesion, .sub(current.position) comes before normalize())
SteerTo(desired, current, sp) ==
    ClampLength(Sub3(NormalizeTo(desired, MaxSpeed(sp)), current.velocity),
                0, MaxForce(sp))

\* Steering computed without the `total > 0` guard, the sums divided by
\* at least 1.
SteeringUnguarded(n, current, sp) ==
    LET total == Max(n.total, 1)
    IN  [alignment |-> SteerTo(Scale3(n.alignment, 1, total), current, sp),
         cohesion |-> SteerTo(Sub3(Scale3(n.cohesion, 1, total),
                                   current.position), current, sp),
         separation |-> SteerTo(Scale3(n.separation, 1, total), current, sp)]

\* the three steering vectors after `if (total > 0) {...}`
Steering(n, current, sp) ==
    IF n.total > 0
    THEN [alignment |-> SteerTo(Scale3(n.alignment, 1, n.total), current, sp),
          cohesion |-> SteerTo(Sub3(Scale3(n.cohesion, 1, n.total),
                                    current.position), current, sp),
          separation |-> SteerTo(Scale3(n.separation, 1, n.total), current, sp)]
    ELSE [alignment |-> n.alignment, cohesion |-> n.cohesion,
          separation |-> n.separation]

\* A centering force added at every distance from the origin.
CenteringAlways(current, sp) ==
    LET centerDir == Sub3(V3(0, 0, 0), current.position)
        distToCenter == Sqrt(LengthSq3(centerDir))
        force == ClampLength(
                    Sub3(NormalizeTo(centerDir, MaxSpeed(sp)),
                         current.velocity),
                    0, MaxForce(sp) * 2)
    IN  Scale3(force, Weights(sp.behavior).centering * distToCenter,
               10 * 5000)

\* the centering force, added if (distToCenter > 5)
Centering(current, sp) ==
    IF FartherThan(V3(0, 0, 0), current.position, CenterRadius)
    THEN LET centerDir == Sub3(V3(0, 0, 0), current.position)
             distToCenter == Sqrt(LengthSq3(centerDir))
             force == ClampLength(
                         Sub3(NormalizeTo(centerDir, MaxSpeed(sp)),
                              current.velocity),
                         0, MaxForce(sp) * 2)
         IN  \* multiplyScalar(centeringWeight * (distToCenter / 5))
             Scale3(force, Weights(sp.behavior).centering * distToCenter,
                    10 * 5000)
    ELSE V3(0, 0, 0)

\* A reaction that does not look at isPlayerSwimming: it always flees.
PlayerOverrideAlwaysFlee(current, sp, localPlayerPos, isPlayerSwimming) ==
    IF IsJelly(sp) /\ CloserThan(current.position, localPlayerPos, DetectRadius)
    THEN Scale3(NormalizeTo(Sub3(current.position, localPlayerPos),
                            MaxSpeed(sp)), 5, 1)
    ELSE V3(0, 0, 0)

\* the jellyfish's reaction to the player, added to the acceleration
PlayerOverride(current, sp, localPlayerPos, isPlayerSwimming) ==
    IF IsJelly(sp) /\ CloserThan(current.position, localPlayerPos, DetectRadius)
    THEN IF isPlayerSwimming
         THEN Scale3(NormalizeTo(Sub3(current.position, localPlayerPos),
                                 MaxSpeed(sp)), 5, 1)
         ELSE IF FartherThan(current.position, localPlayerPos, ComfortRadius)
              THEN Scale3(NormalizeTo(Sub3(localPlayerPos, current.position),
                                      MaxSpeed(sp)), 15, 10)
              ELSE V3(0, 0, 0)
    ELSE V3(0, 0, 0)

\* What one pass of the outer loop body adds to current.acceleration, term
\* by term, and the accumulator's value when line 207 is reached.
ForcesOn(current, n, sp, localPlayerPos, isPlayerSwimming) ==
    LET w == Weights(sp.behavior)
        s == Steering(n, current, sp)
        alignment == Scale3(s.alignment, w.alignment, 10)
        cohesion == Scale3(s.cohesion, w.cohesion, 10)
        separation == Scale3(s.separation, w.separation, 10)
        centering == Centering(current, sp)
        reaction == PlayerOverride(current, sp, localPlayerPos,
                                   isPlayerSwimming)
    IN  [alignment |-> alignment,
         cohesion |-> cohesion,
         separation |-> separation,
         centering |-> centering,
         reaction |-> reaction,
         acceleration |->
            Add3(Add3(Add3(Add3(Add3(current.acceleration, alignment),
                                cohesion),
                           separation),
                      centering),
                 reaction)]

\* current.acceleration after the forces of one tick were added to it
Accelerate(current, n, sp, localPlayerPos, isPlayerSwimming) ==
    ForcesOn(current, n, sp, localPlayerPos, isPlayerSwimming).acceleration

\* An integration that moves the agent by its new velocity.
IntegrateVelocityFirst(current, acceleration, sp) ==
    LET velocity == ClampLength(Add3(current.velocity, acceleration),
                                Quot(MaxSpeed(sp), 2), MaxSpeed(sp))
    IN  [position |-> Add3(current.position, velocity),
         velocity |-> velocity,
         acceleration |-> V3(0, 0, 0)]

\* position.add(velocity); velocity.add(acceleration);
\* velocity.clampLength(maxSpeed * 0.5, maxSpeed); acceleration.set(0, 0, 0)
Integrate(current, acceleration, sp) ==
    [position |-> Add3(current.position, current.velocity),
     velocity |-> ClampLength(Add3(current.velocity, acceleration),
                              Quot(MaxSpeed(sp), 2), MaxSpeed(sp)),
     acceleration |-> V3(0, 0, 0)]

\* The outer loop body for agent i, on the array as agents 1..i-1 left it.
UpdateBoid(bs, i, sp, localPlayerPos, isPlayerSwimming) ==
    LET n == NeighbourScan(bs, sp.count, i, 1, NoNeighbours)
        f == ForcesOn(bs[i], n, sp, localPlayerPos, isPlayerSwimming)
    IN  [boid |-> Integrate(bs[i], f.acceleration, sp),
         divByZero |-> n.divByZero,
         override |-> f.reaction,
         forces |-> f]

\* A loop that drops the agents beyond the centering distance.
RECURSIVE TickLoopCulling(_, _, _, _, _, _)
TickLoopCulling(bs, i, sp, localPlayerPos, isPlayerSwimming, acc) ==
    IF i > Len(bs) THEN [boids |-> bs, divByZero |-> acc.divByZero,
                         terms |-> acc.terms, forces |-> acc.forces]
    ELSE IF FartherThan(V3(0, 0, 0), bs[i].position, CenterRadius)
         THEN TickLoopCulling(SubSeq(bs, 1, i - 1) \o SubSeq(bs, i + 1, Len(bs)),
                              i, sp, localPlayerPos, isPlayerSwimming, acc)
         ELSE TickLoopCulling(bs, i + 1, sp, localPlayerPos,
                              isPlayerSwimming, acc)

\* What the loop has seen so far: a division by zero, the reaction added to
\* each agent's acceleration, and each agent's forces.
NoneYet == [divByZero |-> FALSE, terms |-> <<>>, forces |-> <<>>]

\* The outer loop: for (i = 0; i < species.count; i++)
RECURSIVE TickLoop(_, _, _, _, _, _)
TickLoop(bs, i, sp, localPlayerPos, isPlayerSwimming, acc) ==
    IF i > sp.count THEN [boids |-> bs, divByZero |-> acc.divByZero,
                          terms |-> acc.terms, forces |-> acc.forces]
    ELSE LET u == UpdateBoid(bs, i, sp, localPlayerPos, isPlayerSwimming)
         IN  TickLoop([bs EXCEPT ![i] = u.boid], i + 1, sp, localPlayerPos,
                      isPlayerSwimming,
                      [divByZero |-> acc.divByZero \/ u.divByZero,
                       terms |-> Append(acc.terms, u.override),
                       forces |-> Append(acc.forces, u.forces)])

\* The number of frames the model simulates.
MaxTicks == 2

\* camera.position.clone().sub(schoolCenter), in thousandths: on an agent's
\* initial position (2 and 7.5 from the others), and 3 and 12 from another.
PlayerPlaces == {V3(2000, 0, 0), V3(0, 0, 3000), V3(0, 0, 12000)}

\* Only the jellyfish reads the player's position and isPlayerSwimming: for
\* the other species one value of each stands for all.
PlayerInputs(sp) ==
    IF IsJelly(sp) THEN PlayerPlaces \X BOOLEAN
    ELSE {<<V3(2000, 0, 0), FALSE>>}

NoOverride ==
    [player |-> V3(0, 0, 0), swimming |-> FALSE, terms |-> <<>>,
     forces |-> <<>>]

IdleFlock ==
    /\ species = WithCount(CHOOSE sp \in FlockSpecies : sp.id = "clownfish", 0)
    /\ boids = <<>>
    /\ ticks = 0
    /\ divByZero = FALSE
    /\ flockError = FALSE
    /\ override = NoOverride

InitFlock ==
    /\ \E sp \in FlockSpecies, n \in 0..MaxCount : species = WithCount(sp, n)
    /\ boids \in InitBoids(species)
    /\ ticks = 0
    /\ divByZero = FALSE
    /\ flockError = FALSE
    /\ override = NoOverride

\* The boids part of FishSchool's frame callback (the mesh is mounted).  An
\* agent index the array does not hold reads undefined, and the tick throws.
FlockTick ==
    /\ ticks < MaxTicks
    /\ ~flockError
    /\ ticks' = ticks + 1
    /\ species' = species
    /\ IF species.count > Len(boids)
       THEN flockError' = TRUE /\ UNCHANGED <<boids, divByZero, override>>
       ELSE \E in \in PlayerInputs(species) :
               LET localPlayerPos == in[1]
                   isPlayerSwimming == in[2]
                   r == TickLoop(boids, 1, species, localPlayerPos,
                                 isPlayerSwimming, NoneYet)
               IN  /\ boids' = r.boids
                   /\ divByZero' = (divByZero \/ r.divByZero)
                   /\ flockError' = FALSE
                   /\ override' = [player |-> localPlayerPos,
                                   swimming |-> isPlayerSwimming,
                                   terms |-> r.terms,
                                   forces |-> r.forces]
    /\ UNCHANGED <<sceneVars, terrainVars, tutorial>>

\* ------------------------------------------------------------------------
\* generateTerrain (worldGen.ts, the definition in force)
\* ------------------------------------------------------------------------
\* Lengths are in units of 0.005, so that BLOCK_SIZE is 30, half a cell is 15
\* and the mechanism's offset of 0.5 is 100.  Loop counters x and z are held
\* in half cells (x = -widthCount / 2 is a half-integer for an odd width).
BlockSize == 30

\* The grids the model generates hold at most MaxCells cells.
MaxCells == 2

GridSizes ==
    {s \in (-1..MaxCells) \X (-1..MaxCells) :
        s[1] <= 0 \/ s[2] <= 0 \/ s[1] * s[2] <= MaxCells}

\* The values of a loop that runs while x <= half.
RECURSIVE LoopRangeInclusive(_, _)
LoopRangeInclusive(from, to) ==
    IF from <= to THEN <<from>> \o LoopRangeInclusive(from + 2, to) ELSE <<>>

\* for (let x = -half; x < half; x++): the values x takes, in half cells,
\* from = -count and to = count.
RECURSIVE LoopRange(_, _)
LoopRange(from, to) ==
    IF from < to THEN <<from>> \o LoopRange(from + 2, to) ELSE <<>>

RECURSIVE Pairs(_, _)
Pairs(xs, zs) ==
    IF xs = <<>> THEN <<>>
    ELSE [k \in 1..Len(zs) |-> <<Head(xs), zs[k]>>] \o Pairs(Tail(xs), zs)

\* The cells the nested loops visit, in order (x outer, z inner).
Cells(w, d) == Pairs(LoopRange(-w, w), LoopRange(-d, d))

EmptyLayout ==
    [sandInstances |-> <<>>, stoneInstances |-> <<>>, runeInstances |-> <<>>,
     lampInstances |-> <<>>, kelpInstances |-> <<>>, grassInstances |-> <<>>,
     coralInstances |-> <<>>, coralColors |-> <<>>,
     starfishInstances |-> <<>>, flowerInstances |-> <<>>,
     columnInstances |-> <<>>, anemoneInstances |-> <<>>,
     smallRockInstances |-> <<>>, interactables |-> <<>>, mapPOIs |-> <<>>]

\* The values of Math.random() the model draws for `rand`, in units of
\* 0.0001: one inside every interval the cascade's thresholds cut, and the
\* thresholds 0.0002, 0.02, 0.105 and 0.999 themselves.
RandDraws ==
    {1, 2, 30, 55, 100, 200, 1020, 1050, 4100, 6000, 9000, 9500, 9990, 9995}

\* The values of the vegetation noise sin(px * 0.1) * cos(pz * 0.1) the model
\* gives a cell, in hundredths: one inside every interval the cascade's
\* thresholds cut, and 0.  (The noise depends on the cell only; the model's
\* few cells stand for cells anywhere on the map.)
VegDraws == {-60, -30, -10, 0, 10, 25, 50, 80}

\* The values of Math.floor((noise * 4 - 6) / BLOCK_SIZE) the model gives a
\* cell: that of a cell whose height noise is 0.
HeightSteps == {-40}

\* coralPalette entries the model draws: 0xf472b6 and 0xb5ead7
CoralColours == {16020150, 11922135}

\* The draws a cell makes after `rand`: Math.random() > 0.5 (isPillar),
\* heightBlocks, the blocks h with Math.random() > 0.8 (runes),
\* Math.random() > 0.7 (mechanism), Math.random() > 0.995 (kelp POI), the
\* coral colour, and the coral stack (0: Math.random() <= 0.5).
DefaultDraw ==
    [isPillar |-> TRUE, heightBlocks |-> 5, runesAt |-> {},
     mechanism |-> FALSE, kelpHeight |-> 4, kelpPOI |-> FALSE,
     colour |-> 16020150, stack |-> 0]

StructureDraws ==
    {DefaultDraw} \cup
    {[DefaultDraw EXCEPT !.isPillar = FALSE, !.runesAt = r, !.mechanism = m] :
        r \in {{}, {0, 2}}, m \in BOOLEAN}

KelpDraws == {[DefaultDraw EXCEPT !.kelpPOI = p] : p \in BOOLEAN}

CoralDraws ==
    {[DefaultDraw EXCEPT !.colour = c, !.stack = s] :
        c \in CoralColours, s \in {0, 2}}

\* The cascade's rules in the order of the code, and their conditions.
Rules ==
    <<"structure", "kelp", "chest", "seagrass", "smallRock", "anemone",
      "starfish", "flower", "coral">>

\* Conditions whose chest rule does not look at the vegetation density.
GuardChestAnywhere(rule, rand, veg) ==
    CASE rule = "structure" -> rand > 9990 /\ veg > -50
      [] rule = "kelp"      -> veg > 60 /\ rand > 9400
      [] rule = "chest"     -> rand < 2
      [] rule = "seagrass"  -> veg > 30 /\ rand > 8500
      [] rule = "smallRock" -> rand < 200 /\ veg < 20
      [] rule = "anemone"   -> rand > 1000 /\ rand < 1050 /\ veg > -20
      [] rule = "starfish"  -> rand < 60 /\ veg < 0
      [] rule = "flower"    -> rand > 4000 /\ rand < 4150 /\ veg > 0
      [] OTHER              -> rand < 50

Guard(rule, rand, veg) ==
    CASE rule = "structure" -> rand > 9990 /\ veg > -50
      [] rule = "kelp"      -> veg > 60 /\ rand > 9400
      [] rule = "chest"     -> rand < 2 /\ veg < 0
      [] rule = "seagrass"  -> veg > 30 /\ rand > 8500
      [] rule = "smallRock" -> rand < 200 /\ veg < 20
      [] rule = "anemone"   -> rand > 1000 /\ rand < 1050 /\ veg > -20
      [] rule = "starfish"  -> rand < 60 /\ veg < 0
      [] rule = "flower"    -> rand > 4000 /\ rand < 4150 /\ veg > 0
      [] OTHER              -> rand < 50

\* A cascade whose chest rule falls through to the rules after it.
ContinuesExceptChest(rule) == rule \notin {"chest", "coral"}

\* The rule's body ends with `continue` (the last rule, coral, has none).
Continues(rule) == rule # "coral"

\* The sub-draws that matter to a cell with these rand and veg.
DrawsFor(rand, veg) ==
    IF Guard("structure", rand, veg) THEN StructureDraws
    ELSE IF Guard("kelp", rand, veg) THEN KelpDraws
    ELSE IF Guard("coral", rand, veg) THEN CoralDraws
    ELSE {DefaultDraw}

Pos(x, y, z) == <<x, y, z>>

\* the translations (px, surfaceYIndex + h * BLOCK_SIZE, pz) for h = from..to
Stack(px, surfaceY, pz, from, to) ==
    [k \in 1..(to - from + 1) |->
        Pos(px, surfaceY + (from + k - 1) * BlockSize, pz)]

\* the blocks of Stack kept by `keep`, in order
RECURSIVE StackWhere(_, _, _, _, _, _)
StackWhere(px, surfaceY, pz, from, to, keep) ==
    IF from > to THEN <<>>
    ELSE (IF from \in keep
          THEN <<Pos(px, surfaceY + from * BlockSize, pz)>> ELSE <<>>)
         \o StackWhere(px, surfaceY, pz, from + 1, to, keep)

\* A record whose coordinates are exchanged.
POISwapped(x, z, type, color) ==
    [x |-> z, z |-> x, type |-> type, color |-> color]

\* mapPOIs.push({ x, z, type, color })
POI(x, z, type, color) == [x |-> x, z |-> z, type |-> type, color |-> color]

\* `${x}` for a loop counter held in half cells: "-1", "0", "-0.5", "1.5".
FormatNumber(h) ==
    IF h % 2 = 0 THEN ToString(h \div 2)
    ELSE (IF h < 0 THEN "-" ELSE "")
         \o ToString((IF h < 0 THEN -h ELSE h) \div 2) \o ".5"

\* An identifier that leaves the second coordinate out.
ItemIdRowOnly(prefix, c) == prefix \o "_" \o FormatNumber(c[1])

\* id: `mech_${x}_${z}`, `chest_${x}_${z}`
ItemId(prefix, c) ==
    prefix \o "_" \o FormatNumber(c[1]) \o "_" \o FormatNumber(c[2])

\* A floor without its foundation block.
FloorOnly(px, py, pz) == <<Pos(px, py, pz)>>

\* The floor block and the foundation block below it.
Floor(px, py, pz) == <<Pos(px, py, pz), Pos(px, py - BlockSize, pz)>>

HexDigits ==
    <<"0", "1", "2", "3", "4", "5", "6", "7",
      "8", "9", "a", "b", "c", "d", "e", "f">>

\* Number.prototype.toString(16)
RECURSIVE ToHex(_)
ToHex(n) ==
    IF n < 16 THEN HexDigits[n + 1]
    ELSE ToHex(n \div 16) \o HexDigits[(n % 16) + 1]

\* Color.getHexString(): ('000000' + hex.toString(16)).slice(-6)
GetHexString(n) ==
    (IF n < 16 THEN "00000"
     ELSE IF n < 256 THEN "0000"
     ELSE IF n < 4096 THEN "000"
     ELSE IF n < 65536 THEN "00"
     ELSE IF n < 1048576 THEN "0" ELSE "") \o ToHex(n)

\* hexToCss: '#' + new THREE.Color(hex).getHexString()
HexToCss(hex) == "#" \o GetHexString(hex)

\* tempColor.setHex(hex) sets r, g, b from (hex >> 16 & 255), (hex >> 8 &
\* 255) and (hex & 255); a channel is held as that byte, which the float
\* stored for it (and its Float32Array element) determines and is
\* determined by.
ChannelsOf(hex) == <<(hex \div 65536) % 256, (hex \div 256) % 256, hex % 256>>

\* A colour pushed for the base voxel only.
ColourChannelsBaseOnly(colour, voxels) == ChannelsOf(colour)

\* cColors.push(tempColor.r, tempColor.g, tempColor.b), once per voxel
ColourChannels(colour, voxels) ==
    [k \in 1..(3 * voxels) |-> ChannelsOf(colour)[((k - 1) % 3) + 1]]

\* The body of one rule for cell c = <<x, z>> (half cells) at px, pz with
\* surface height surfaceY and sub-draws d, applied to the lists in lay.
RuleBody(rule, lay, c, px, pz, surfaceY, d) ==
    CASE rule = "structure" ->
           IF d.isPillar
           THEN [lay EXCEPT !.columnInstances =
                    @ \o Stack(px, surfaceY, pz, 0, d.heightBlocks - 1)]
           ELSE [lay EXCEPT
                   !.runeInstances =
                      @ \o StackWhere(px, surfaceY, pz, 0, d.heightBlocks - 1,
                                      d.runesAt),
                   !.stoneInstances =
                      @ \o StackWhere(px, surfaceY, pz, 0, d.heightBlocks - 1,
                                      (0..(d.heightBlocks - 1)) \ d.runesAt),
                   !.lampInstances =
                      Append(@, Pos(px, surfaceY + d.heightBlocks * BlockSize,
                                    pz)),
                   !.interactables =
                      IF d.mechanism
                      THEN Append(@, [id |-> ItemId("mech", c),
                                      type |-> "MECHANISM",
                                      position |->
                                         Pos(px + 100, surfaceY, pz + 100)])
                      ELSE @,
                   !.mapPOIs =
                      Append(@, POI(px, pz, "ruin", NULL)) \o
                      (IF d.mechanism
                       THEN <<POI(px + 100, pz + 100, "mechanism", NULL)>>
                       ELSE <<>>)]
      [] rule = "kelp" ->
           [lay EXCEPT
              !.kelpInstances = @ \o Stack(px, surfaceY, pz, 0, d.kelpHeight - 1),
              !.mapPOIs = IF d.kelpPOI
                          THEN Append(@, POI(px, pz, "kelp", NULL)) ELSE @]
      [] rule = "chest" ->
           [lay EXCEPT
              !.interactables =
                 Append(@, [id |-> ItemId("chest", c), type |-> "CHEST",
                            position |-> Pos(px, surfaceY, pz)]),
              !.mapPOIs = Append(@, POI(px, pz, "chest", NULL))]
      [] rule = "seagrass" ->
           [lay EXCEPT !.grassInstances = Append(@, Pos(px, surfaceY, pz))]
      [] rule = "smallRock" ->
           [lay EXCEPT !.smallRockInstances = Append(@, Pos(px, surfaceY, pz))]
      [] rule = "anemone" ->
           [lay EXCEPT !.anemoneInstances = Append(@, Pos(px, surfaceY, pz))]
      [] rule = "starfish" ->
           \* surfaceYIndex - BLOCK_SIZE * 0.4
           [lay EXCEPT !.starfishInstances =
               Append(@, Pos(px, surfaceY - (BlockSize * 4) \div 10, pz))]
      [] rule = "flower" ->
           [lay EXCEPT !.flowerInstances = Append(@, Pos(px, surfaceY, pz))]
      [] OTHER ->
           [lay EXCEPT
              !.coralInstances = @ \o Stack(px, surfaceY, pz, 0, d.stack),
              !.coralColors = @ \o ColourChannels(d.colour, 1 + d.stack),
              !.mapPOIs = Append(@, POI(px, pz, "coral", HexToCss(d.colour)))]

\* The cascade from rule k on: a rule whose condition holds runs its body,
\* and its `continue` ends the cell.  acc = [layout, rules]: the lists, and
\* the rules whose body ran for this cell.
RECURSIVE Cascade(_, _, _, _, _, _, _, _, _)
Cascade(k, acc, c, px, pz, surfaceY, rand, veg, d) ==
    IF k > Len(Rules) THEN acc
    ELSE IF Guard(Rules[k], rand, veg)
         THEN LET ran == [layout |-> RuleBody(Rules[k], acc.layout, c, px, pz,
                                              surfaceY, d),
                          rules |-> acc.rules \cup {Rules[k]}]
              IN  IF Continues(Rules[k]) THEN ran
                  ELSE Cascade(k + 1, ran, c, px, pz, surfaceY, rand, veg, d)
         ELSE Cascade(k + 1, acc, c, px, pz, surfaceY, rand, veg, d)

\* One iteration of the inner loop, for cell c with height step `step`.
CellBody(lay, c, step, rand, veg, d) ==
    LET px == c[1] * (BlockSize \div 2)
        pz == c[2] * (BlockSize \div 2)
        py == step * BlockSize
        floor == [lay EXCEPT !.sandInstances =
                     @ \o Floor(px, py, pz)]
    IN  Cascade(1, [layout |-> floor, rules |-> {}], c, px, pz,
                py + BlockSize, rand, veg, d)

\* No draw is on record.
NotDrawn == [rand |-> 0, vegDensity |-> 0, sub |-> DefaultDraw]

IdleTerrain ==
    /\ widthCount = 0
    /\ depthCount = 0
    /\ cursor = 1
    /\ layout = EmptyLayout
    /\ claimedBy = <<>>
    /\ returned = FALSE
    /\ drawn = NotDrawn

\* generateTerrain(widthCount, depthCount) is entered, the lists are empty.
InitTerrainOn(sizes) ==
    /\ \E s \in sizes : widthCount = s[1] /\ depthCount = s[2]
    /\ cursor = 1
    /\ layout = EmptyLayout
    /\ claimedBy = <<>>
    /\ returned = FALSE
    /\ drawn = NotDrawn

\* One iteration of the nested loops: the next cell, with its draws.
TerrainCell ==
    /\ ~returned
    /\ cursor <= Len(Cells(widthCount, depthCount))
    /\ \E step \in HeightSteps, rand \in RandDraws, veg \in VegDraws :
          \E d \in DrawsFor(rand, veg) :
             LET c == Cells(widthCount, depthCount)[cursor]
                 r == CellBody(layout, c, step, rand, veg, d)
             IN  /\ layout' = r.layout
                 /\ claimedBy' = Append(claimedBy, [cell |-> c, rules |-> r.rules])
    /\ cursor' = cursor + 1
    /\ UNCHANGED <<widthCount, depthCount, returned, drawn, sceneVars,
                   flockVars, tutorial>>

\* The loops are over: generateTerrain returns the record of the lists.
TerrainReturn ==
    /\ ~returned
    /\ cursor > Len(Cells(widthCount, depthCount))
    /\ returned' = TRUE
    /\ UNCHANGED <<widthCount, depthCount, cursor, layout, claimedBy, drawn,
                   sceneVars, flockVars, tutorial>>

\* Math.random() values for `rand`, in units of 0.0001: every threshold of
\* the cascade, a value inside every interval between two thresholds, and 0.
RandCuts ==
    {0, 1, 2, 30, 50, 55, 60, 100, 200, 600, 1000, 1020, 1050, 2000, 4000,
     4100, 4150, 6000, 8500, 9000, 9400, 9500, 9990, 9995}

\* Values of the vegetation noise in hundredths: every threshold of the
\* cascade, a value inside every interval, and the ends -1 and 1.
VegCuts ==
    {-100, -60, -50, -30, -20, -10, 0, 10, 20, 25, 30, 50, 60, 80, 100}

\* generateTerrain(1, 1) is entered; the draws its one cell will make.
InitCascade ==
    /\ widthCount = 1 /\ depthCount = 1
    /\ cursor = 1
    /\ layout = EmptyLayout
    /\ claimedBy = <<>>
    /\ returned = FALSE
    /\ \E rand \in RandCuts, veg \in VegCuts :
          \E d \in DrawsFor(rand, veg) :
             drawn = [rand |-> rand, vegDensity |-> veg, sub |-> d]

\* The loop body for the one cell, on the draws on record.
CascadeCell ==
    /\ ~returned
    /\ cursor <= Len(Cells(widthCount, depthCount))
    /\ \E step \in HeightSteps :
          LET c == Cells(widthCount, depthCount)[cursor]
              r == CellBody(layout, c, step, drawn.rand, drawn.vegDensity,
                            drawn.sub)
          IN  /\ layout' = r.layout
              /\ claimedBy' = Append(claimedBy, [cell |-> c, rules |-> r.rules])
    /\ cursor' = cursor + 1
    /\ UNCHANGED <<widthCount, depthCount, returned, drawn, sceneVars,
                   flockVars, tutorial>>

\* ------------------------------------------------------------------------
\* FishSchool instances (SceneContent) and their species (SPECIES_DATA)
\* ------------------------------------------------------------------------
\* FishSchool instances mounted by SceneContent, in mount order: the first,
\* the second, the twelfth (the first species again) and the fourth; group
\* position in tenths.
SchoolCenter(g) ==
    CASE g = 1 -> Vec(0, -10, 0)
      [] g = 2 -> Vec(100, 40, -100)
      [] g = 3 -> Vec(-350, -10, 350)
      [] OTHER -> Vec(-80, 0, 80)

\* species.id of the instance's species
SpeciesOf(g) ==
    CASE g = 1 -> "clownfish"
      [] g = 2 -> "sardine"
      [] g = 3 -> "clownfish"
      [] OTHER -> "tang"

Groups == {1, 2, 3}

\* The camera position at distance d (world units) from g's home point, along z.
CamAt(g, d) == VAdd(SchoolCenter(g), Vec(0, 0, Tenths(d)))

\* ------------------------------------------------------------------------
\* Proximity check of FishSchool's frame callback
\* ------------------------------------------------------------------------
EnterDist == 10

ExitDist == 15

\* A check without hysteresis: it enters below the exit distance.
EntersScanAtExitDist(scanned, distSq) ==
    distSq < Tenths(ExitDist) * Tenths(ExitDist) /\ ~scanned

\* dist < 10 && !isScannedRef.current
EntersScan(scanned, distSq) ==
    distSq < Tenths(EnterDist) * Tenths(EnterDist) /\ ~scanned

\* A check without hysteresis: it exits above the enter distance.
ExitsScanAtEnterDist(scanned, distSq) ==
    distSq > Tenths(EnterDist) * Tenths(EnterDist) /\ scanned

\* dist > 15 && isScannedRef.current
ExitsScan(scanned, distSq) ==
    distSq > Tenths(ExitDist) * Tenths(ExitDist) /\ scanned

\* The check without the flag in its conditions: it reports on every frame.
ProximityCheckEveryFrame(g, scanned, cam) ==
    LET distSq == DistSq(cam, SchoolCenter(g))
    IN  IF distSq < Tenths(EnterDist) * Tenths(EnterDist)
        THEN [scanned |-> TRUE, calls |-> <<SpeciesOf(g)>>]
        ELSE IF distSq > Tenths(ExitDist) * Tenths(ExitDist)
             THEN [scanned |-> FALSE, calls |-> <<NULL>>]
             ELSE [scanned |-> scanned, calls |-> <<>>]

\* The new flag and the onScan calls made, in order.
ProximityCheck(g, scanned, cam) ==
    LET distSq == DistSq(cam, SchoolCenter(g))
    IN  IF EntersScan(scanned, distSq)
        THEN [scanned |-> TRUE, calls |-> <<SpeciesOf(g)>>]
        ELSE IF ExitsScan(scanned, distSq)
             THEN [scanned |-> FALSE, calls |-> <<NULL>>]
             ELSE [scanned |-> scanned, calls |-> <<>>]

\* ------------------------------------------------------------------------
\* App: session state, refs and queued state updates
\* ------------------------------------------------------------------------
\* terrainData.interactables: static after generation.  Three items, placed
\* so that a player at (2, 0, 0) is at distances 2, 3.9 and 10 from them.
Interactables ==
    << [id |-> "chest_0_0", type |-> "CHEST",     position |-> Vec(0, 0, 0)],
       [id |-> "mech_3_0",  type |-> "MECHANISM", position |-> Vec(59, 0, 0)],
       [id |-> "chest_1_7", type |-> "CHEST",     position |-> Vec(20, 0, 100)] >>

ItemIds == {Interactables[i].id : i \in 1..Len(Interactables)}

InteractRange == 4

\* The loop of the interactables check without the skip of activated items.
RECURSIVE ClosestScanNoSkip(_, _, _, _, _)
ClosestScanNoSkip(items, interactedIds, pos, closest, minSqDist) ==
    IF items = <<>> THEN closest
    ELSE LET item == Head(items)
             sqDist == DistSq(pos, item.position)
         IN  IF sqDist < minSqDist
             THEN ClosestScanNoSkip(Tail(items), interactedIds, pos, item.id, sqDist)
             ELSE ClosestScanNoSkip(Tail(items), interactedIds, pos, closest, minSqDist)

\* for (const item of interactables) { ... }: the id of `closest`, or null
RECURSIVE ClosestScan(_, _, _, _, _)
ClosestScan(items, interactedIds, pos, closest, minSqDist) ==
    IF items = <<>> THEN closest
    ELSE LET item == Head(items)
             sqDist == DistSq(pos, item.position)
         IN  IF item.id \in interactedIds
             THEN ClosestScan(Tail(items), interactedIds, pos, closest, minSqDist)
             ELSE IF sqDist < minSqDist
                  THEN ClosestScan(Tail(items), interactedIds, pos, item.id, sqDist)
                  ELSE ClosestScan(Tail(items), interactedIds, pos, closest, minSqDist)

\* The query that may return an activated item.
ClosestInteractableNoSkip(items, interactedIds, pos) ==
    ClosestScanNoSkip(items, interactedIds, pos, NULL,
                      Tenths(InteractRange) * Tenths(InteractRange))

\* let closest = null; let minSqDist = 4.0 * 4.0; then the loop
ClosestInteractable(items, interactedIds, pos) ==
    ClosestScan(items, interactedIds, pos, NULL,
                Tenths(InteractRange) * Tenths(InteractRange))

MaxPending == 3

Upd(op, arg) == [op |-> op, arg |-> arg]

InitApp ==
    [gameState |-> "INTRO", isGameOver |-> FALSE, isInputLocked |-> FALSE,
     oxygen |-> 100, scannedSpecies |-> NULL, collectedSpecies |-> {},
     interactedItems |-> {}, closestInteractable |-> NULL, crashed |-> FALSE]

NoQuery == [ran |-> FALSE, pos |-> Vec(0, 0, 0), seen |-> {}, result |-> NULL]

InitAppVars ==
    /\ app = InitApp
    /\ refs = [closestInteractable |-> NULL, interactedItems |-> {},
               gameState |-> "INTRO"]
    /\ pending = <<>>
    /\ narrating = FALSE
    /\ character = Vec(0, 0, 0)
    /\ lastClosestId = NULL
    /\ oxygenRef = 100
    /\ framePc = 1
    /\ lastQuery = NoQuery

\* The interact updater that forgets what was activated before.
InteractUpdaterReplacing(prev, ref) == {ref}

\* prev => new Set(prev).add(closestInteractableRef.current!.id)
InteractUpdater(prev, ref) == prev \cup {ref}

\* An updater that reads the state of the batch it runs in.
InteractTargetFromState(st, r) == st.closestInteractable

\* closestInteractableRef.current, read when the updater runs
InteractTarget(st, r) == r.closestInteractable

\* One queued update applied to the state; `r` are the refs it may read.
ApplyUpdate(st, u, r) ==
    CASE u.op = "setGameState" -> [st EXCEPT !.gameState = u.arg]
      [] u.op = "setIsGameOver" -> [st EXCEPT !.isGameOver = u.arg]
      [] u.op = "setIsInputLocked" -> [st EXCEPT !.isInputLocked = u.arg]
      [] u.op = "setOxygen" -> [st EXCEPT !.oxygen = u.arg]
      [] u.op = "setScannedSpecies" -> [st EXCEPT !.scannedSpecies = u.arg]
      [] u.op = "setClosestInteractable" ->
            [st EXCEPT !.closestInteractable = u.arg]
      [] u.op = "collect" ->
            IF u.arg \in st.collectedSpecies THEN st
            ELSE [st EXCEPT !.collectedSpecies = @ \cup {u.arg}]
      [] u.op = "interact" ->
            IF InteractTarget(st, r) = NULL
            THEN [st EXCEPT !.crashed = TRUE]
            ELSE [st EXCEPT !.interactedItems =
                               InteractUpdater(@, InteractTarget(st, r))]

\* An updater that locks input on every scan-started event.
NestedUpdatesAlways(st, u) ==
    IF u.op = "collect" THEN <<Upd("setIsInputLocked", TRUE)>> ELSE <<>>

\* The updates an updater queues while it runs: setIsInputLocked(true) in
\* the collectedSpecies updater, on a first collection only.
NestedUpdates(st, u) ==
    IF u.op = "collect" /\ u.arg \notin st.collectedSpecies
    THEN <<Upd("setIsInputLocked", TRUE)>>
    ELSE <<>>

RECURSIVE ApplyAll(_, _, _)
ApplyAll(st, queue, r) ==
    IF queue = <<>> THEN st
    ELSE ApplyAll(ApplyUpdate(st, Head(queue), r),
                  Tail(queue) \o NestedUpdates(st, Head(queue)), r)

\* BioScanner is rendered by the HUD of TUTORIAL and PLAYING, not on the
\* game-over screen, while a species is scanned.
BioScannerMounted(st) ==
    /\ st.scannedSpecies # NULL
    /\ ~st.isGameOver
    /\ st.gameState \in {"TUTORIAL", "PLAYING"}

\* A render of App: the queued updates are applied in order, then the
\* effects run: the refs are synced, and BioScanner narrates a new species
\* (speak returns at once where window.speechSynthesis is missing).
Render ==
    /\ framePc = 1
    /\ ~app.crashed
    /\ pending # <<>>
    /\ LET next == ApplyAll(app, pending, refs)
       IN  /\ app' = next
           /\ refs' = IF next.crashed THEN refs
                      ELSE [closestInteractable |-> next.closestInteractable,
                            interactedItems |-> next.interactedItems,
                            gameState |-> next.gameState]
           /\ \E speechSynthesis \in BOOLEAN :
                 narrating' =
                    IF /\ ~next.crashed
                       /\ BioScannerMounted(next)
                       /\ (~BioScannerMounted(app)
                           \/ next.scannedSpecies # app.scannedSpecies)
                       /\ speechSynthesis
                    THEN TRUE
                    ELSE narrating
    /\ pending' = <<>>
    /\ UNCHANGED <<camera, isScanned, scanVars, worldVars, character,
                   lastClosestId, oxygenRef, framePc, lastQuery>>

\* A handler queues its updates; user handlers wait for room in the queue.
Enqueue(updates) ==
    /\ Len(pending) + Len(updates) <= MaxPending
    /\ pending' = pending \o updates

UserEvent == framePc = 1 /\ ~app.crashed

\* handleStartIntro, from the intro screen
StartIntro ==
    /\ UserEvent
    /\ app.gameState = "INTRO" /\ ~app.isGameOver
    /\ Enqueue(<<Upd("setGameState", "PHOTO_MODE")>>)
    /\ UNCHANGED <<camera, isScanned, scanVars, worldVars, app, refs, narrating,
                   character, lastClosestId, oxygenRef, framePc, lastQuery>>

\* handleAcceptLicense, from the photo screen
AcceptLicense ==
    /\ UserEvent
    /\ app.gameState = "PHOTO_MODE" /\ ~app.isGameOver
    /\ Enqueue(<<Upd("setGameState", "TUTORIAL")>>)
    /\ UNCHANGED <<camera, isScanned, scanVars, worldVars, app, refs, narrating,
                   character, lastClosestId, oxygenRef, framePc, lastQuery>>

\* handleTutorialComplete()
HandleTutorialComplete ==
    <<Upd("setGameState", "PLAYING"), Upd("setOxygen", 100),
      Upd("setIsGameOver", FALSE)>>

\* handleTutorialComplete, from the tutorial overlay
TutorialComplete ==
    /\ UserEvent
    /\ app.gameState = "TUTORIAL" /\ ~app.isGameOver
    /\ Enqueue(HandleTutorialComplete)
    /\ UNCHANGED <<camera, isScanned, scanVars, worldVars, app, refs, narrating,
                   character, lastClosestId, oxygenRef, framePc, lastQuery>>

\* handleRespawn, from the game-over screen
Respawn ==
    /\ UserEvent
    /\ app.isGameOver
    /\ Enqueue(<<Upd("setOxygen", 100), Upd("setIsGameOver", FALSE)>>)
    /\ UNCHANGED <<camera, isScanned, scanVars, worldVars, app, refs, narrating,
                   character, lastClosestId, oxygenRef, framePc, lastQuery>>

\* gameStateRef.current === PLAYING && closestInteractableRef.current
\*   && !interactedItemsRef.current.has(closestInteractableRef.current.id)
InteractKeyGuard(r) ==
    /\ r.gameState = "PLAYING"
    /\ r.closestInteractable # NULL
    /\ r.closestInteractable \notin r.interactedItems

\* handleKeyDown, case 'e' / 'E'.  The queued updater takes no argument;
\* `arg` remembers what closestInteractableRef held when the key went down.
KeyDownInteract ==
    /\ UserEvent
    /\ InteractKeyGuard(refs)
    /\ Enqueue(<<Upd("interact", refs.closestInteractable)>>)
    /\ UNCHANGED <<camera, isScanned, scanVars, worldVars, app, refs, narrating,
                   character, lastClosestId, oxygenRef, framePc, lastQuery>>

\* utterance.onend of a BioScanner narration: handleScanComplete
NarrationEnd ==
    /\ UserEvent
    /\ narrating
    /\ narrating' = FALSE
    /\ Enqueue(<<Upd("setIsInputLocked", FALSE)>>)
    /\ UNCHANGED <<camera, isScanned, scanVars, worldVars, app, refs,
                   character, lastClosestId, oxygenRef, framePc, lastQuery>>

\* utterance.onerror of a BioScanner narration: onEnd is not called
NarrationError ==
    /\ UserEvent
    /\ narrating
    /\ narrating' = FALSE
    /\ UNCHANGED <<camera, isScanned, scanVars, worldVars, app, refs, pending,
                   character, lastClosestId, oxygenRef, framePc, lastQuery>>

\* ------------------------------------------------------------------------
\* TutorialOverlay (Interface.tsx): the step, its narration, the timers
\* ------------------------------------------------------------------------
\* steps.length
StepCount == 7

NotSpeaking == -1

\* The overlay is not mounted.
NoOverlay ==
    [currentStep |-> 0, queued |-> 0, speaking |-> NotSpeaking, timers |-> {},
     mounted |-> FALSE, crashed |-> FALSE]

\* The overlay after its first render: step 0, whose text is being spoken.
\* `speaking` and `timers` hold the currentStep of the render whose effect
\* made the utterance or the timer (the value its callback closes over).
NewOverlay ==
    [currentStep |-> 0, queued |-> 0, speaking |-> 0, timers |-> {},
     mounted |-> TRUE, crashed |-> FALSE]

\* The App shows the tutorial; the overlay has just been mounted.
InitTutorial ==
    /\ app = [InitApp EXCEPT !.gameState = "TUTORIAL"]
    /\ refs = [closestInteractable |-> NULL, interactedItems |-> {},
               gameState |-> "TUTORIAL"]
    /\ pending = <<>>
    /\ narrating = FALSE
    /\ character = Vec(0, 0, 0)
    /\ lastClosestId = NULL
    /\ oxygenRef = 100
    /\ framePc = 1
    /\ lastQuery = NoQuery
    /\ tutorial = NewOverlay

\* if (currentStep < steps.length - 1) setCurrentStep(c => c + 1);
\* else onComplete();
\* with the currentStep of the closure; an update of the unmounted overlay
\* is dropped.
AdvanceOrComplete(step, t, q) ==
    IF step < StepCount - 1
    THEN [tutorial |-> IF t.mounted THEN [t EXCEPT !.queued = @ + 1] ELSE t,
          pending |-> q]
    ELSE [tutorial |-> t, pending |-> q \o HandleTutorialComplete]

\* Room for what a callback may queue.
TutorialRoom ==
    /\ tutorial.queued < MaxPending
    /\ Len(pending) + Len(HandleTutorialComplete) <= MaxPending

\* The Next button of the overlay, clicked on a render that is up to date
\* (React renders the update of a click before it handles the next event).
TutorialNext ==
    /\ tutorial.mounted /\ ~tutorial.crashed
    /\ tutorial.queued = 0 /\ pending = <<>>
    /\ TutorialRoom
    /\ LET r == AdvanceOrComplete(tutorial.currentStep, tutorial, pending)
       IN  tutorial' = r.tutorial /\ pending' = r.pending
    /\ UNCHANGED <<camera, isScanned, scanVars, flockVars, terrainVars, app,
                   refs, narrating, character, lastClosestId, oxygenRef,
                   framePc, lastQuery>>

\* utterance.onend of the step's narration: setTimeout(..., 2000)
TutorialNarrationEnd ==
    /\ ~tutorial.crashed
    /\ tutorial.speaking # NotSpeaking
    /\ tutorial' = [tutorial EXCEPT !.speaking = NotSpeaking,
                                    !.timers = @ \cup {tutorial.speaking}]
    /\ UNCHANGED <<sceneVars, flockVars, terrainVars>>

\* utterance.onerror of the step's narration: no timer
TutorialNarrationError ==
    /\ ~tutorial.crashed
    /\ tutorial.speaking # NotSpeaking
    /\ tutorial' = [tutorial EXCEPT !.speaking = NotSpeaking]
    /\ UNCHANGED <<sceneVars, flockVars, terrainVars>>

\* A timer of the narration of step `step` fires.  Nothing clears it when
\* the step changes or the overlay is unmounted.
TutorialTimer(step) ==
    /\ ~tutorial.crashed
    /\ step \in tutorial.timers
    /\ TutorialRoom
    /\ LET r == AdvanceOrComplete(step,
                    [tutorial EXCEPT !.timers = @ \ {step}], pending)
       IN  tutorial' = r.tutorial /\ pending' = r.pending
    /\ UNCHANGED <<camera, isScanned, scanVars, flockVars, terrainVars, app,
                   refs, narrating, character, lastClosestId, oxygenRef,
                   framePc, lastQuery>>

\* window.speechSynthesis.cancel() while an utterance is spoken: the
\* browser ends it with onend (`ends`) or with onerror.
Cancel(t, ends) ==
    IF t.speaking # NotSpeaking /\ ends
    THEN [t EXCEPT !.speaking = NotSpeaking, !.timers = @ \cup {t.speaking}]
    ELSE [t EXCEPT !.speaking = NotSpeaking]

\* The overlay's part of a render in which the App shows `gameState`: the
\* queued updaters run; steps[currentStep] is read (undefined beyond the
\* last step: reading its fields throws); the effect of a new step runs
\* its predecessor's cleanup, cancel(), and speaks the new text.  Leaving
\* TUTORIAL unmounts the overlay and runs the cleanup.
RenderOverlay(t, gameState, ends) ==
    IF ~t.mounted THEN t
    ELSE IF gameState # "TUTORIAL"
    THEN [Cancel(t, ends) EXCEPT !.mounted = FALSE, !.queued = 0]
    ELSE IF t.queued = 0 THEN t
    ELSE LET step == t.currentStep + t.queued
         IN  IF step > StepCount - 1
             THEN [t EXCEPT !.currentStep = step, !.queued = 0,
                            !.crashed = TRUE]
             ELSE [Cancel(t, ends) EXCEPT !.currentStep = step, !.queued = 0,
                                          !.speaking = step]

\* A render of App and of the overlay in it.
TutorialRender ==
    /\ ~tutorial.crashed
    /\ pending # <<>> \/ tutorial.queued > 0
    /\ LET next == ApplyAll(app, pending, refs)
       IN  /\ app' = next
           /\ refs' = [closestInteractable |-> next.closestInteractable,
                       interactedItems |-> next.interactedItems,
                       gameState |-> next.gameState]
           /\ \E ends \in BOOLEAN :
                 tutorial' = RenderOverlay(tutorial, next.gameState, ends)
    /\ pending' = <<>>
    /\ UNCHANGED <<camera, isScanned, scanVars, flockVars, terrainVars,
                   narrating, character, lastClosestId, oxygenRef, framePc,
                   lastQuery>>

\* ------------------------------------------------------------------------
\* The frame: FishSchool callbacks, then PlayerController, then
\* SurvivalSystem, in mount order; one frame runs without interruption
\* ------------------------------------------------------------------------
PlayerPc == Cardinality(Groups) + 1

SurvivalPc == Cardinality(Groups) + 2

\* handleScanSpecies(species)
HandleScanSpecies(sp) ==
    IF sp = NULL
    THEN <<Upd("setScannedSpecies", NULL)>>
    ELSE <<Upd("setScannedSpecies", sp), Upd("collect", sp)>>

RECURSIVE ScanCalls(_)
ScanCalls(calls) ==
    IF calls = <<>> THEN <<>>
    ELSE HandleScanSpecies(Head(calls)) \o ScanCalls(Tail(calls))

\* A frame starts once the updates of the frame before are rendered.
FrameReady == framePc > 1 \/ pending = <<>>

\* FishSchool's frame callback of instance g: the proximity check, with
\* onScan = handleScanSpecies.  (Its boids part is SpecFlock.)
FishSchoolFrame(g) ==
    /\ framePc = g
    /\ ~app.crashed
    /\ FrameReady
    /\ LET r == ProximityCheck(g, isScanned[g], camera)
       IN  /\ isScanned' = [isScanned EXCEPT ![g] = r.scanned]
           /\ pending' = pending \o ScanCalls(r.calls)
    /\ framePc' = g + 1
    /\ UNCHANGED <<camera, scanVars, worldVars, app, refs, narrating, character,
                   lastClosestId, oxygenRef, lastQuery>>

\* Where the intro animation puts the camera: on the orbit of radius 18.
IntroCamPositions == {Vec(0, 50, 180), Vec(127, 50, -127)}

\* Where the photo-mode animation takes the camera: towards (0, 0, 3.5).
PhotoCamPositions == {Vec(0, 25, 100), Vec(0, 0, 35)}

\* Where the physics of a frame may leave the camera and the character.
PlayPlaces ==
    { [cam |-> CamAt(1, 9),  chr |-> Vec(20, 0, 0)],
      [cam |-> CamAt(1, 12), chr |-> Vec(30, 0, 0)],
      [cam |-> CamAt(1, 16), chr |-> Vec(0, 0, -50)],
      [cam |-> CamAt(2, 9),  chr |-> Vec(40, 0, 0)],
      [cam |-> CamAt(2, 16), chr |-> Vec(20, 0, 70)],
      [cam |-> CamAt(3, 9),  chr |-> Vec(0, 0, -50)] }

\* A check that reports the query's result on every frame.
HoverEventEveryFrame(closest, last) ==
    <<Upd("setClosestInteractable", closest)>>

\* if (currentId !== lastClosestId.current) onHoverInteractable(closest)
HoverEvent(closest, last) ==
    IF closest # last THEN <<Upd("setClosestInteractable", closest)>>
    ELSE <<>>

\* PlayerController's frame callback.
PlayerControllerFrame ==
    /\ framePc = PlayerPc
    /\ framePc' = SurvivalPc
    /\ IF app.isGameOver \/ app.gameState = "TUTORIAL"
       THEN UNCHANGED <<camera, character, lastClosestId, pending, lastQuery>>
       ELSE IF app.gameState = "INTRO"
       THEN /\ camera' \in IntroCamPositions
            /\ character' = Vec(0, 0, 0)
            /\ UNCHANGED <<lastClosestId, pending, lastQuery>>
       ELSE IF app.gameState = "PHOTO_MODE"
       THEN /\ camera' \in PhotoCamPositions
            /\ character' = Vec(0, 0, 0)
            /\ UNCHANGED <<lastClosestId, pending, lastQuery>>
       ELSE IF app.isInputLocked
       THEN UNCHANGED <<camera, character, lastClosestId, pending, lastQuery>>
       ELSE \E place \in PlayPlaces :
               LET closest == ClosestInteractable(Interactables,
                                  app.interactedItems, place.chr)
               IN  /\ camera' = place.cam
                   /\ character' = place.chr
                   /\ lastQuery' = [ran |-> TRUE, pos |-> place.chr,
                                    seen |-> app.interactedItems,
                                    result |-> closest]
                   /\ lastClosestId' = closest
                   /\ pending' = pending \o HoverEvent(closest, lastClosestId)
    /\ UNCHANGED <<isScanned, scanVars, worldVars, app, refs, narrating,
                   oxygenRef>>

\* What one frame adds to or takes from the oxygen level.
OxygenStep == 50

\* An oxygen handler that sends the game back to the intro screen.
HandleOxygenUpdateToIntro(newLevel) ==
    IF newLevel <= 0
    THEN <<Upd("setOxygen", newLevel), Upd("setIsGameOver", TRUE),
           Upd("setGameState", "INTRO")>>
    ELSE <<Upd("setOxygen", newLevel)>>

\* handleOxygenUpdate(newLevel)
HandleOxygenUpdate(newLevel) ==
    IF newLevel <= 0
    THEN <<Upd("setOxygen", newLevel), Upd("setIsGameOver", TRUE),
           Upd("setGameState", "PLAYING")>>
    ELSE <<Upd("setOxygen", newLevel)>>

\* SurvivalSystem's frame callback; the camera is under water (y < 9).
SurvivalFrame ==
    /\ framePc = SurvivalPc
    /\ framePc' = 1
    /\ IF app.gameState # "PLAYING" \/ app.isGameOver
       THEN UNCHANGED <<oxygenRef, pending>>
       ELSE \E isRecharging \in BOOLEAN, report \in BOOLEAN :
               /\ oxygenRef' = IF isRecharging
                               THEN Min(100, oxygenRef + OxygenStep)
                               ELSE Max(0, oxygenRef - OxygenStep)
               /\ pending' = IF report
                             THEN pending \o HandleOxygenUpdate(oxygenRef')
                             ELSE pending
    /\ UNCHANGED <<camera, isScanned, scanVars, worldVars, app, refs, narrating,
                   character, lastClosestId, lastQuery>>

Init ==
    /\ camera = Vec(0, 50, 180)
    /\ isScanned = [g \in Groups |-> FALSE]
    /\ scanGroup = 1 /\ camLog = <<>> /\ scanLog = <<>>
    /\ InitAppVars
    /\ tutorial = NoOverlay
    /\ IdleFlock
    /\ IdleTerrain

Next ==
    \/ \E g \in Groups : FishSchoolFrame(g)
    \/ PlayerControllerFrame
    \/ SurvivalFrame
    \/ Render
    \/ StartIntro
    \/ AcceptLicense
    \/ TutorialComplete
    \/ Respawn
    \/ KeyDownInteract
    \/ NarrationEnd
    \/ NarrationError

Spec == Init /\ [][Next]_vars


\* ------------------------------------------------------------------------
\* Claims on the interactables (Spec)
\* ------------------------------------------------------------------------
\* The items a query at `pos` may return when `seen` are activated: not
\* activated, and closer than the interaction radius of 4.
QueryCandidates(pos, seen) ==
    {i \in 1..Len(Interactables) :
        /\ Interactables[i].id \notin seen
        /\ DistSq(pos, Interactables[i].position) < 40 * 40}

\* C4: whenever the closest-interactable query runs, its result is a
\* not-yet-activated item within the interaction radius of 4 whose squared
\* distance to the player is minimal among such items, and null when there
\* is no such item; an activated item is never returned.
C4_ClosestQuery ==
    lastQuery.ran =>
        LET cands == QueryCandidates(lastQuery.pos, lastQuery.seen)
        IN  /\ lastQuery.result \notin lastQuery.seen
            /\ (cands = {}) <=> (lastQuery.result = NULL)
            /\ cands # {} =>
                  \E i \in cands :
                     /\ lastQuery.result = Interactables[i].id
                     /\ \A j \in cands :
                           DistSq(lastQuery.pos, Interactables[i].position)
                             <= DistSq(lastQuery.pos, Interactables[j].position)

\* C4 witness: with the player at distances 2, 3.9 and 10 from the items and
\* the nearest one activated, the query returned the item at 3.9.
C4_Witness ==
    /\ lastQuery.ran
    /\ lastQuery.pos = Vec(20, 0, 0)
    /\ lastQuery.seen = {"chest_0_0"}
    /\ lastQuery.result = "mech_3_0"

InteractQueued(q) == \E k \in 1..Len(q) : q[k].op = "interact"

\* C5: the interact key queues an activation only when the game is PLAYING
\* and a closest interactable exists that is not activated; the activated
\* set grows only by applying such an activation, by the closest
\* interactable, activating twice adds nothing more, and no identifier ever
\* leaves the set (game over and respawn included).
C5_ActivationPermanent ==
    [][ /\ app.interactedItems \subseteq app'.interactedItems
        /\ (~InteractQueued(pending) /\ InteractQueued(pending')) =>
              /\ app.gameState = "PLAYING"
              /\ app.closestInteractable # NULL
              /\ app.closestInteractable \notin app.interactedItems
        /\ app'.interactedItems # app.interactedItems =>
              /\ InteractQueued(pending)
              /\ app.gameState = "PLAYING"
              /\ app.closestInteractable # NULL
              /\ app'.interactedItems =
                    app.interactedItems \cup {app.closestInteractable}
      ]_vars

\* C5 witness: two items are activated, the interact key was pressed twice
\* for the second before a render, and the game is over.
C5_Witness ==
    /\ Cardinality(app.interactedItems) = 2
    /\ app.isGameOver
    /\ Len(pending) >= 2
    /\ pending[1].op = "interact"
    /\ pending[2].op = "interact"

\* ------------------------------------------------------------------------
\* Claims on the frame order and the scan bookkeeping (Spec)
\* ------------------------------------------------------------------------
\* C14: the scanner never acts on a stale player position: when a frame is
\* over, every group's flag has been checked against the camera position
\* the frame's motion update left, so a camera closer than 10 to a home
\* point finds the group scanned and one farther than 15 finds it not.
C14_NoStalePlayerPosition ==
    framePc = 1 =>
       \A g \in Groups :
          LET distSq == DistSq(camera, SchoolCenter(g))
          IN  /\ distSq < Tenths(EnterDist) * Tenths(EnterDist) => isScanned[g]
              /\ distSq > Tenths(ExitDist) * Tenths(ExitDist) => ~isScanned[g]

CollectQueued(q, sp) ==
    \E k \in 1..Len(q) : q[k].op = "collect" /\ q[k].arg = sp

\* C15: the collected set never shrinks and grows only by a species whose
\* scan-started event is queued; input becomes locked only in a render that
\* adds a species to the set; and a render whose scan-started events are
\* all for collected species neither changes the set nor locks input.
C15_FirstDiscoveryOnce ==
    [][ /\ app.collectedSpecies \subseteq app'.collectedSpecies
        /\ \A sp \in app'.collectedSpecies \ app.collectedSpecies :
              CollectQueued(pending, sp)
        /\ (~app.isInputLocked /\ app'.isInputLocked) =>
              app'.collectedSpecies # app.collectedSpecies
        /\ (\A k \in 1..Len(pending) :
               pending[k].op = "collect" =>
                  pending[k].arg \in app.collectedSpecies) =>
              /\ app'.collectedSpecies = app.collectedSpecies
              /\ app'.isInputLocked => app.isInputLocked
      ]_vars

\* C15 witness: in one frame the first clownfish group reported scan-ended
\* and the other clownfish group scan-started, the species being collected
\* already and input unlocked.
C15_Witness ==
    /\ "clownfish" \in app.collectedSpecies
    /\ ~app.isInputLocked
    /\ isScanned[3]
    /\ pending = <<Upd("setScannedSpecies", NULL),
                   Upd("setScannedSpecies", "clownfish"),
                   Upd("collect", "clownfish")>>

\* C16: between frames, once every queued update is rendered, the HUD's
\* scanned species is non-null whenever some group is in the scanned state.
C16_HudShowsActiveScan ==
    (framePc = 1 /\ pending = <<>> /\ ~app.crashed) =>
       ((\E g \in Groups : isScanned[g]) => app.scannedSpecies # NULL)

InteractArgs(q) == {q[k].arg : k \in {j \in 1..Len(q) : q[j].op = "interact"}}

QueryRuns ==
    /\ ~app.isGameOver
    /\ app.gameState = "PLAYING"
    /\ ~app.isInputLocked

HoverEvents(q) ==
    SelectSeq(q, LAMBDA u : u.op = "setClosestInteractable")

\* C19: a frame whose query result differs from the identifier last
\* reported emits one event carrying the result, and that identifier
\* becomes the one last reported; a frame whose result is the same, a frame
\* without a query and every other step emit none; so the last event queued
\* carries the identifier last reported and no two consecutive events
\* carry the same one.
C19_HoverEventOnChange ==
    [][ /\ IF framePc = PlayerPc /\ framePc' = SurvivalPc /\ QueryRuns
           THEN /\ lastClosestId' = lastQuery'.result
                /\ pending' =
                      IF lastQuery'.result # lastClosestId
                      THEN Append(pending, Upd("setClosestInteractable",
                                               lastQuery'.result))
                      ELSE pending
           ELSE /\ lastClosestId' = lastClosestId
                /\ Len(HoverEvents(pending')) <= Len(HoverEvents(pending))
        /\ LET events == HoverEvents(pending')
           IN  /\ events # <<>> => events[Len(events)].arg = lastClosestId'
               /\ \A k \in 1..(Len(events) - 1) :
                     events[k].arg # events[k + 1].arg
      ]_vars

\* C19 witness: a frame's query returned the item reported before, and the
\* frame emitted no event.
C19_Witness ==
    /\ framePc = SurvivalPc
    /\ lastQuery.ran
    /\ lastQuery.pos = character
    /\ lastQuery.result # NULL
    /\ lastQuery.result = lastClosestId
    /\ HoverEvents(pending) = <<>>

\* ------------------------------------------------------------------------
\* Claims on game over, respawn and the game state (Spec)
\* ------------------------------------------------------------------------
\* C27 as stated: when a respawn takes effect, the level the survival
\* system holds (and reports next, less the consumption since) is the
\* restored level of 100, so that game over needs a new depletion.
C27_RespawnRestoresOxygen ==
    [][ (app.isGameOver /\ ~app'.isGameOver) =>
           /\ app'.oxygen = 100
           /\ oxygenRef' = 100
      ]_vars

Rank(gameState) ==
    CASE gameState = "INTRO" -> 1
      [] gameState = "PHOTO_MODE" -> 2
      [] gameState = "TUTORIAL" -> 3
      [] gameState = "PLAYING" -> 4

GameStateUpdates(q) ==
    {q[k].arg : k \in {j \in 1..Len(q) : q[j].op = "setGameState"}}

\* C29: the game state never moves back in the order INTRO, PHOTO_MODE,
\* TUTORIAL, PLAYING, and never leaves PLAYING (game over and respawn keep
\* it); the oxygen handler runs, and queues PLAYING, only when the state is
\* PLAYING.
C29_GameStateForward ==
    [][ /\ Rank(app'.gameState) >= Rank(app.gameState)
        /\ app.gameState = "PLAYING" => app'.gameState = "PLAYING"
        /\ (framePc = SurvivalPc /\ pending' # pending) =>
              /\ app.gameState = "PLAYING"
              /\ GameStateUpdates(pending') \subseteq {"PLAYING"}
      ]_vars

\* C29 witness: the game is over and the state is PLAYING, the oxygen
\* handler's update of the game state applied.
C29_Witness ==
    /\ app.gameState = "PLAYING"
    /\ app.isGameOver
    /\ app.oxygen = 0
    /\ pending = <<>>

\* ------------------------------------------------------------------------
\* SpecLive: the session under its scheduling
\* ------------------------------------------------------------------------
\* React renders every queued update and the render loop keeps calling the
\* frame callbacks (weak fairness: once due, they stay due).  A narration in
\* progress fires onend or onerror, and the player goes on from every
\* screen (strong fairness: these wait for the frame in progress to end).
Fairness ==
    /\ WF_vars(Render)
    /\ WF_vars(\E g \in Groups : FishSchoolFrame(g))
    /\ WF_vars(PlayerControllerFrame)
    /\ WF_vars(SurvivalFrame)
    /\ SF_vars(NarrationEnd \/ NarrationError)
    /\ SF_vars(StartIntro)
    /\ SF_vars(AcceptLicense)
    /\ SF_vars(TutorialComplete)
    /\ SF_vars(Respawn)

SpecLive == Init /\ [][Next]_vars /\ Fairness

\* C17: whenever player input is locked, it is unlocked again later.
C17_LockReleased == app.isInputLocked ~> ~app.isInputLocked

\* ------------------------------------------------------------------------
\* SpecScan: one scanner fed a camera position per frame
\* ------------------------------------------------------------------------
MaxFrames == 6

\* Distances (world units) at which the camera is placed from the home point.
ScanDistances == {9, 10, 11, 14, 15, 16, 20}

ScanCamPositions(g) == {CamAt(g, d) : d \in ScanDistances}

\* The scanner under observation is the second FishSchool of the scene.
InitScan ==
    /\ scanGroup = 2
    /\ camera = CamAt(scanGroup, 20)
    /\ isScanned = [g \in Groups |-> FALSE]
    /\ camLog = <<>>
    /\ scanLog = <<>>
    /\ InitAppVars
    /\ tutorial = NoOverlay
    /\ IdleFlock
    /\ IdleTerrain

\* FishSchool's frame callback, proximity part, on the camera position the
\* frame finds; onScan is the recorder.
ScanFrame ==
    /\ Len(camLog) < MaxFrames
    /\ \E p \in ScanCamPositions(scanGroup) :
          LET r == ProximityCheck(scanGroup, isScanned[scanGroup], p)
          IN  /\ camera' = p
              /\ camLog' = Append(camLog, p)
              /\ isScanned' = [isScanned EXCEPT ![scanGroup] = r.scanned]
              /\ scanLog' = scanLog \o
                    [i \in 1..Len(r.calls) |->
                        [frame |-> Len(camLog) + 1, arg |-> r.calls[i]]]
    /\ UNCHANGED <<scanGroup, appVars, worldVars>>

NextScan == ScanFrame

SpecScan == InitScan /\ [][NextScan]_vars

\* ------------------------------------------------------------------------
\* Claims on the proximity scanner (SpecScan)
\* ------------------------------------------------------------------------
ScanDistSq == DistSq(camera, SchoolCenter(scanGroup))

\* C1: the scanned flag of a group goes false -> true only in a frame whose
\* distance is below 10, true -> false only in a frame whose distance is
\* above 15, and at every distance in [10, 15] it keeps its value.
C1_Hysteresis ==
    [][ LET was == isScanned[scanGroup]
            now == isScanned'[scanGroup]
        IN  /\ (~was /\ now) => ScanDistSq' < Tenths(10) * Tenths(10)
            /\ (was /\ ~now) => ScanDistSq' > Tenths(15) * Tenths(15)
            /\ (/\ ScanDistSq' >= Tenths(10) * Tenths(10)
                /\ ScanDistSq' <= Tenths(15) * Tenths(15)) => now = was
      ]_vars

\* C1 witness: after a check at distance exactly 15 the flag is still set,
\* and a check at distance exactly 10 has left it clear before.
C1_Witness ==
    /\ Len(camLog) >= 2
    /\ isScanned[scanGroup]
    /\ camera = CamAt(scanGroup, 15)
    /\ camLog[1] = CamAt(scanGroup, 10)

\* C2: a group emits exactly one event on every change of its flag (its
\* species on false -> true, null on true -> false), none on a frame where
\* the flag does not change, so its events alternate started, ended, ...
\* beginning with started.
C2_OneEventPerChange ==
    /\ [](\A i \in 1..Len(scanLog) :
            scanLog[i].arg = IF i % 2 = 1 THEN SpeciesOf(scanGroup) ELSE NULL)
    /\ [][ LET was == isScanned[scanGroup]
               now == isScanned'[scanGroup]
           IN  /\ (was # now) =>
                     /\ Len(scanLog') = Len(scanLog) + 1
                     /\ SubSeq(scanLog', 1, Len(scanLog)) = scanLog
                     /\ scanLog'[Len(scanLog')].arg =
                           IF now THEN SpeciesOf(scanGroup) ELSE NULL
               /\ (was = now) => scanLog' = scanLog
         ]_vars

\* C2 witness: a started, an ended and a second started event were emitted,
\* with frames in between that emitted nothing.
C2_Witness ==
    /\ Len(scanLog) = 3
    /\ Len(camLog) = MaxFrames

\* The distances of the hysteresis test of the spec, one per frame.
HysteresisScript == <<20, 9, 11, 14, 16, 9>>

ScriptFed ==
    /\ Len(camLog) = Len(HysteresisScript)
    /\ \A i \in 1..Len(HysteresisScript) :
          camLog[i] = CamAt(scanGroup, HysteresisScript[i])

\* C3: from the not-scanned state, the distances 20, 9, 11, 14, 16, 9 give
\* exactly scan-started at the first 9 (frame 2), scan-ended at 16 (frame 5)
\* and scan-started at the last 9 (frame 6), and nothing at 20, 11 or 14.
C3_HysteresisScript ==
    ScriptFed =>
        scanLog = << [frame |-> 2, arg |-> SpeciesOf(scanGroup)],
                     [frame |-> 5, arg |-> NULL],
                     [frame |-> 6, arg |-> SpeciesOf(scanGroup)] >>

\* C3 witness: the whole script has been fed and checked.
C3_Witness == ScriptFed /\ Len(scanLog) = 3 /\ isScanned[scanGroup]


\* ------------------------------------------------------------------------
\* SpecFlock: the boids of one group, tick after tick
\* SpecTerrain: one call of generateTerrain, cell after cell
\* SpecDegenerate: a call of generateTerrain beside a group of no agents
\* ------------------------------------------------------------------------
\* The scene at rest, for the specifications that do not run it.
IdleScene ==
    /\ camera = Vec(0, 50, 180)
    /\ isScanned = [g \in Groups |-> FALSE]
    /\ scanGroup = 1 /\ camLog = <<>> /\ scanLog = <<>>
    /\ InitAppVars
    /\ tutorial = NoOverlay

InitFlockOnly == IdleScene /\ InitFlock /\ IdleTerrain

NextFlock == FlockTick

SpecFlock == InitFlockOnly /\ [][NextFlock]_vars

InitTerrainOnly == IdleScene /\ IdleFlock /\ InitTerrainOn(GridSizes)

NextTerrain == TerrainCell \/ TerrainReturn

SpecTerrain == InitTerrainOnly /\ [][NextTerrain]_vars

InitCascadeOnly == IdleScene /\ IdleFlock /\ InitCascade

NextCascade == CascadeCell \/ TerrainReturn

SpecCascade == InitCascadeOnly /\ [][NextCascade]_vars

InitTutorialOnly ==
    /\ camera = Vec(0, 50, 180)
    /\ isScanned = [g \in Groups |-> FALSE]
    /\ scanGroup = 1 /\ camLog = <<>> /\ scanLog = <<>>
    /\ InitTutorial
    /\ IdleFlock
    /\ IdleTerrain

NextTutorial ==
    \/ TutorialNext
    \/ TutorialNarrationEnd
    \/ TutorialNarrationError
    \/ \E step \in 0..(StepCount - 1) : TutorialTimer(step)
    \/ TutorialRender

SpecTutorial == InitTutorialOnly /\ [][NextTutorial]_vars

\* The grids with no cell, and the grid of one cell beside them.
DegenerateSizes == {s \in GridSizes : s[1] <= 0 \/ s[2] <= 0 \/ s = <<1, 1>>}

InitDegenerate ==
    /\ IdleScene
    /\ InitTerrainOn(DegenerateSizes)
    /\ \E sp \in FlockSpecies : species = WithCount(sp, 0)
    /\ boids \in InitBoids(species)
    /\ ticks = 0
    /\ divByZero = FALSE
    /\ flockError = FALSE
    /\ override = NoOverride

NextDegenerate == TerrainCell \/ TerrainReturn \/ FlockTick

SpecDegenerate == InitDegenerate /\ [][NextDegenerate]_vars

\* ------------------------------------------------------------------------
\* Claims on the boids (SpecFlock)
\* ------------------------------------------------------------------------
\* C6: after any number of ticks the group holds exactly species.count
\* agents: no tick creates or destroys an agent.
C6_PopulationConstant ==
    /\ Len(boids) = species.count
    /\ ~flockError

\* C6 witness: a group of two agents has been through two ticks.
C6_Witness == Len(boids) = 2 /\ ticks = 2

\* C7: after every tick every agent's speed is at least 0.5 x maxSpeed and
\* at most maxSpeed (to within 2 thousandths, for the rounding of the fixed
\* point); in particular it is never zero.
C7_SpeedWithinBounds ==
    ticks > 0 =>
       \A i \in 1..Len(boids) :
          LET v == boids[i].velocity
              lo == Quot(MaxSpeed(species), 2) - 2
              hi == MaxSpeed(species) + 2
          IN  /\ ~v.nan
              /\ LengthSq3(v) # 0
              /\ lo * lo <= LengthSq3(v)
              /\ LengthSq3(v) <= hi * hi

\* C9: no tick divides by zero, and no agent's position or velocity is NaN.
C9_NoDivisionByZero ==
    /\ ~divByZero
    /\ \A i \in 1..Len(boids) :
          ~boids[i].position.nan /\ ~boids[i].velocity.nan

\* ------------------------------------------------------------------------
\* Claims on the terrain (SpecTerrain)
\* ------------------------------------------------------------------------
PositionsOf(list) == {list[k] : k \in 1..Len(list)}

\* The position sets of the returned placement lists, the interactables'
\* positions among them.
PlacementSets(lay) ==
    << PositionsOf(lay.sandInstances), PositionsOf(lay.stoneInstances),
       PositionsOf(lay.runeInstances), PositionsOf(lay.lampInstances),
       PositionsOf(lay.kelpInstances), PositionsOf(lay.grassInstances),
       PositionsOf(lay.coralInstances), PositionsOf(lay.starfishInstances),
       PositionsOf(lay.flowerInstances), PositionsOf(lay.columnInstances),
       PositionsOf(lay.anemoneInstances), PositionsOf(lay.smallRockInstances),
       {lay.interactables[k].position : k \in 1..Len(lay.interactables)} >>

CellsOf(list) == {<<list[k][1], list[k][3]>> : k \in 1..Len(list)}

\* Per category of the cascade, the cells (px, pz) its lists hold.
CategoryCells(lay) ==
    << CellsOf(lay.columnInstances) \cup CellsOf(lay.stoneInstances) \cup
          CellsOf(lay.runeInstances) \cup CellsOf(lay.lampInstances) \cup
          {<<lay.interactables[k].position[1] - 100,
             lay.interactables[k].position[3] - 100>> :
              k \in {j \in 1..Len(lay.interactables) :
                        lay.interactables[j].type = "MECHANISM"}},
       CellsOf(lay.kelpInstances),
       {<<lay.interactables[k].position[1], lay.interactables[k].position[3]>> :
           k \in {j \in 1..Len(lay.interactables) :
                     lay.interactables[j].type = "CHEST"}},
       CellsOf(lay.grassInstances), CellsOf(lay.smallRockInstances),
       CellsOf(lay.anemoneInstances), CellsOf(lay.starfishInstances),
       CellsOf(lay.flowerInstances), CellsOf(lay.coralInstances) >>

PairwiseDisjoint(sets) ==
    \A a, b \in 1..Len(sets) : a # b => sets[a] \cap sets[b] = {}

\* C8: every cell is claimed by at most one rule of the cascade; no cell is
\* in the lists of two cascade categories (structure, kelp, chest, seagrass,
\* small rock, anemone, starfish, flower, coral), and the position sets of
\* the placement lists are pairwise disjoint.
C8_OneRulePerCell ==
    /\ \A k \in 1..Len(claimedBy) : Cardinality(claimedBy[k].rules) <= 1
    /\ PairwiseDisjoint(CategoryCells(layout))
    /\ PairwiseDisjoint(PlacementSets(layout))

\* C8 witness: a returned layout of two cells, one claimed by a monolith
\* with runes and a mechanism, the other by a stacked coral.
C8_Witness ==
    /\ returned
    /\ Len(claimedBy) = 2
    /\ layout.runeInstances # <<>>
    /\ Len(layout.interactables) = 1
    /\ Len(layout.coralInstances) = 3

\* ------------------------------------------------------------------------
\* Claims on degenerate input (SpecDegenerate)
\* ------------------------------------------------------------------------
\* C10: generateTerrain with a zero or negative width or depth visits no
\* cell and returns a layout whose lists are all empty; a group whose species
\* count is zero has no agents and every tick of it completes without error.
C10_DegenerateInput ==
    /\ (widthCount <= 0 \/ depthCount <= 0) =>
          /\ layout = EmptyLayout
          /\ claimedBy = <<>>
          /\ cursor > Len(Cells(widthCount, depthCount))
    /\ species.count = 0 =>
          /\ boids = <<>>
          /\ ~flockError
          /\ ~divByZero

\* C10 witness: the call with width 0 and depth 2 has returned the empty
\* layout, and the group of no agents has been through two ticks.
C10_Witness ==
    /\ returned
    /\ widthCount = 0 /\ depthCount = 2
    /\ layout = EmptyLayout
    /\ species.count = 0
    /\ ticks = 2


\* The cells generateTerrain(w, d) has: w x d, none when a size is not
\* positive.
CellCount(w, d) == IF w > 0 /\ d > 0 THEN w * d ELSE 0

\* C11: every cell visited, whichever rule claimed it, has pushed exactly two
\* sand voxels, the first at the cell's (px, pz) and at a height that is a
\* whole number of blocks, the second one block below it; the returned sand
\* list has 2 x (number of cells) entries.
C11_TwoSandPerCell ==
    /\ Len(layout.sandInstances) = 2 * Len(claimedBy)
    /\ \A k \in 1..Len(claimedBy) :
          LET c == claimedBy[k].cell
              top == layout.sandInstances[2 * k - 1]
              below == layout.sandInstances[2 * k]
          IN  /\ top[1] = c[1] * (BlockSize \div 2)
              /\ top[3] = c[2] * (BlockSize \div 2)
              /\ top[2] % BlockSize = 0
              /\ below = <<top[1], top[2] - BlockSize, top[3]>>
    /\ returned =>
          Len(layout.sandInstances) = 2 * CellCount(widthCount, depthCount)

\* C11 witness: a returned grid of two cells, one claimed by the structure
\* rule and one by no rule.
C11_Witness ==
    /\ returned
    /\ Len(claimedBy) = 2
    /\ \E k \in 1..2 : claimedBy[k].rules = {"structure"}
    /\ \E k \in 1..2 : claimedBy[k].rules = {}

\* The cell (px, pz) an interactable was placed for: a chest stands on its
\* cell, a mechanism 0.5 beside it on both axes.
OriginOf(item) ==
    IF item.type = "CHEST"
    THEN <<item.position[1], item.position[3]>>
    ELSE <<item.position[1] - 100, item.position[3] - 100>>

\* C12: the interactables of one call have pairwise distinct identifiers,
\* and no two of them come from the same cell.
C12_DistinctIds ==
    LET items == layout.interactables
    IN  \A i, j \in 1..Len(items) :
           i # j => /\ items[i].id # items[j].id
                    /\ OriginOf(items[i]) # OriginOf(items[j])

\* C12 witness: a returned grid whose two cells both hold an interactable.
C12_Witness == returned /\ Len(layout.interactables) = 2

\* The type of the map record a cascade rule is said to leave.
POITypeOf(rule) ==
    CASE rule = "structure" -> "ruin"
      [] rule = "kelp"      -> "kelp"
      [] rule = "chest"     -> "chest"
      [] OTHER              -> "coral"

HasPOI(x, z, type) ==
    \E k \in 1..Len(layout.mapPOIs) :
       /\ layout.mapPOIs[k].x = x
       /\ layout.mapPOIs[k].z = z
       /\ layout.mapPOIs[k].type = type

\* C13 as stated: every cell claimed by the structure, kelp, chest or coral
\* rule, and every mechanism, has a map record of its type at its place.
C13_EveryFeatureHasPOI ==
    /\ \A k \in 1..Len(claimedBy) :
          \A rule \in claimedBy[k].rules \cap
                         {"structure", "kelp", "chest", "coral"} :
             HasPOI(claimedBy[k].cell[1] * (BlockSize \div 2),
                    claimedBy[k].cell[2] * (BlockSize \div 2),
                    POITypeOf(rule))
    /\ \A i \in 1..Len(layout.interactables) :
          layout.interactables[i].type = "MECHANISM" =>
             HasPOI(layout.interactables[i].position[1],
                    layout.interactables[i].position[3], "mechanism")

KelpPOIs == {k \in 1..Len(layout.mapPOIs) : layout.mapPOIs[k].type = "kelp"}

\* C13 amended: every rune monolith (by its lamp), every coral formation,
\* every chest and every mechanism has exactly one map record of its type
\* at its place; a ruin column has none; a kelp record lies on a kelp
\* column, and not every kelp column has one.
C13_POIPerFeature ==
    /\ \A c \in CellsOf(layout.lampInstances) : HasPOI(c[1], c[2], "ruin")
    /\ \A c \in CellsOf(layout.coralInstances) : HasPOI(c[1], c[2], "coral")
    /\ \A i \in 1..Len(layout.interactables) :
          HasPOI(layout.interactables[i].position[1],
                 layout.interactables[i].position[3],
                 IF layout.interactables[i].type = "CHEST"
                 THEN "chest" ELSE "mechanism")
    /\ \A c \in CellsOf(layout.columnInstances) :
          \A k \in 1..Len(layout.mapPOIs) :
             <<layout.mapPOIs[k].x, layout.mapPOIs[k].z>> # c
    /\ \A k \in KelpPOIs :
          <<layout.mapPOIs[k].x, layout.mapPOIs[k].z>>
             \in CellsOf(layout.kelpInstances)
    /\ Len(layout.mapPOIs) =
          Cardinality(CellsOf(layout.lampInstances))
          + Cardinality(CellsOf(layout.coralInstances))
          + Len(layout.interactables) + Cardinality(KelpPOIs)

\* C13 witness: a returned grid with a ruin column, which left no record,
\* beside a monolith with a mechanism, which left two.
C13_Witness ==
    /\ returned
    /\ layout.columnInstances # <<>>
    /\ Len(layout.interactables) = 1
    /\ Len(layout.mapPOIs) = 2


\* ------------------------------------------------------------------------
\* Claims on the jellyfish's reaction (SpecFlock)
\* ------------------------------------------------------------------------
Dot3(a, b) == a.x * b.x + a.y * b.y + a.z * b.z

\* What a tick added to agent i for the player, against the claim: the
\* agent was at `pos` when the loop reached it, the player at `player`.
\* `atPlayer` says what is asked of an agent exactly at the player's
\* position while the player swims.
ReactionAsClaimed(pos, player, swimming, term, atPlayer) ==
    LET away == Sub3(pos, player)
        distSq == LengthSq3(away)
    IN  IF distSq >= DetectRadius * DetectRadius
        THEN term = V3(0, 0, 0)
        ELSE IF swimming
        THEN IF distSq = 0 THEN atPlayer ELSE Dot3(term, away) > 0
        ELSE IF distSq > ComfortRadius * ComfortRadius
             THEN Dot3(term, away) < 0
             ELSE term = V3(0, 0, 0)

JellyTick == IsJelly(species) /\ ticks' = ticks + 1 /\ ~flockError'

\* C20 as stated: a jellyfish closer than 12 to a swimming player gets a
\* term that points away from the player; closer than 12 to a player at
\* rest it gets a term that points to the player exactly when it is farther
\* than 3; at 12 or more it gets none.
C20_FleeOrFollow ==
    [][ JellyTick =>
          \A i \in 1..Len(boids) :
             ~boids[i].position.nan =>
                ReactionAsClaimed(boids[i].position, override'.player,
                                  override'.swimming, override'.terms[i],
                                  Dot3(override'.terms[i], override'.terms[i]) > 0)
      ]_vars

\* C20 amended: the same, for an agent that is not exactly at the player's
\* position; an agent exactly there gets no term from a swimming player.
C20_FleeOrFollowApart ==
    [][ JellyTick =>
          \A i \in 1..Len(boids) :
             ~boids[i].position.nan =>
                ReactionAsClaimed(boids[i].position, override'.player,
                                  override'.swimming, override'.terms[i],
                                  override'.terms[i] = V3(0, 0, 0))
      ]_vars

\* C20 witness: a tick of two jellyfish with the player at rest, one agent
\* drawn towards the player and one, within 3 of the player, left alone.
C20_Witness ==
    /\ IsJelly(species)
    /\ ticks > 0
    /\ ~override.swimming
    /\ Len(override.terms) = 2
    /\ \E i, j \in 1..2 :
          /\ override.terms[i] = V3(0, 0, 0)
          /\ CloserThan(boids[i].position, override.player, 2500)
          /\ Dot3(override.terms[j], Sub3(override.player, boids[j].position)) > 0

\* ------------------------------------------------------------------------
\* Claims on what a tick reads and how it integrates (SpecFlock)
\* ------------------------------------------------------------------------
\* A tick of a group whose array holds every agent.
WholeTick == ticks' = ticks + 1 /\ ~flockError'

C22_IntegrationOrder ==
    [][ WholeTick =>
          \A i \in 1..Len(boids) :
             /\ boids[i].acceleration = V3(0, 0, 0)
             /\ boids'[i].position = Add3(boids[i].position, boids[i].velocity)
             /\ boids'[i].velocity =
                   ClampLength(Add3(boids[i].velocity,
                                    override'.forces[i].acceleration),
                               Quot(MaxSpeed(species), 2), MaxSpeed(species))
             /\ boids'[i].acceleration = V3(0, 0, 0)
      ]_vars

\* C22 witness: after two ticks an agent has a velocity that its last
\* acceleration turned, and a position that moved.
C22_Witness ==
    /\ ticks = 2
    /\ Len(boids) = 2
    /\ \E i \in 1..2 :
          /\ override.forces[i].acceleration # V3(0, 0, 0)
          /\ ~override.forces[i].acceleration.nan
          /\ boids[i].velocity # V3(0, 0, 0)
          /\ boids[i].acceleration = V3(0, 0, 0)

\* The array entry of agent j that the loop body of agent i reads in the
\* tick: agents before i were updated already.
SeenBy(i, j) == IF j < i THEN boids'[j] ELSE boids[j]

Alone(i) ==
    \A j \in 1..Len(boids) :
       j # i => ~CloserThan(boids[i].position, SeenBy(i, j).position,
                            PerceptionRadius)

\* C23: an agent with no other agent of its group closer than 2.5 gets no
\* alignment, cohesion or separation in the tick; its acceleration is the
\* centering force plus the jellyfish's reaction to the player.
C23_NoNeighbourNoSteering ==
    [][ WholeTick =>
          \A i \in 1..Len(boids) :
             Alone(i) =>
                LET f == override'.forces[i]
                IN  /\ f.alignment = V3(0, 0, 0)
                    /\ f.cohesion = V3(0, 0, 0)
                    /\ f.separation = V3(0, 0, 0)
                    /\ f.acceleration = Add3(f.centering, override'.terms[i])
      ]_vars

\* C23 witness: a tick of two agents, one beyond 5 from the origin and
\* with no neighbour, whose acceleration is not zero.
C23_Witness ==
    /\ ticks = 1
    /\ Len(boids) = 2
    /\ \E i \in 1..2 :
          /\ override.forces[i].alignment = V3(0, 0, 0)
          /\ override.forces[i].separation = V3(0, 0, 0)
          /\ override.forces[i].centering # V3(0, 0, 0)
          /\ override.forces[i].acceleration # V3(0, 0, 0)
          /\ \A j \in 1..2 :
                j # i => FartherThan(boids[i].position, boids[j].position,
                                     2 * PerceptionRadius)

\* the weighted centering force the source computes for an agent farther
\* than 5 from the origin: clamped steering x weight x (distance / 5)
CenteringAsClaimed(current, sp) ==
    LET toCenter == Sub3(V3(0, 0, 0), current.position)
        steer == ClampLength(Sub3(NormalizeTo(toCenter, MaxSpeed(sp)),
                                  current.velocity),
                             0, 2 * MaxForce(sp))
    IN  Scale3(steer,
               Weights(sp.behavior).centering * DistanceTo(V3(0, 0, 0),
                                                           current.position),
               10 * CenterRadius)

\* C24: the tick adds a centering force to an agent exactly when the agent
\* is farther than 5 from the group's origin, and that force is the
\* clamped steering to the origin weighted by distance / 5; an agent at 5
\* or less gets none.
C24_CenteringBeyondRadius ==
    [][ WholeTick =>
          \A i \in 1..Len(boids) :
             ~boids[i].position.nan =>
                LET f == override'.forces[i]
                IN  IF LengthSq3(boids[i].position) > CenterRadius * CenterRadius
                    THEN f.centering = CenteringAsClaimed(boids[i], species)
                    ELSE f.centering = V3(0, 0, 0)
      ]_vars

\* C24 witness: one tick gave an agent beyond 5 a centering force towards
\* the origin and an agent within 5 none.
C24_Witness ==
    /\ ticks = 1
    /\ Len(boids) = 2
    /\ \E i, j \in 1..2 :
          /\ override.forces[i].centering = V3(0, 0, 0)
          /\ LengthSq3(boids[i].position) < 4000 * 4000
          /\ ~override.forces[j].centering.nan
          /\ Dot3(override.forces[j].centering, boids[j].position) < 0

\* ------------------------------------------------------------------------
\* Claims on the placement cascade (SpecCascade)
\* ------------------------------------------------------------------------
ChestsOf(lay) ==
    {k \in 1..Len(lay.interactables) : lay.interactables[k].type = "CHEST"}

\* C25: a cell that got a kelp column has a vegetation density above 0.6;
\* a cell that got a treasure chest or a starfish has one below 0.
C25_DensityGating ==
    /\ layout.kelpInstances # <<>> => drawn.vegDensity > 60
    /\ ChestsOf(layout) # {} => drawn.vegDensity < 0
    /\ layout.starfishInstances # <<>> => drawn.vegDensity < 0

\* C25 witness: the cell got a chest, drawn at a density below 0.
C25_Witness ==
    /\ returned
    /\ ChestsOf(layout) # {}
    /\ drawn.vegDensity < 0
    /\ drawn.rand < 2

\* The rules whose body runs for a cell with these draws.
RulesRun(rand, veg, d) ==
    CellBody(EmptyLayout, Cells(1, 1)[1], -40, rand, veg, d).rules

\* C26 as stated: whatever a cell got, for every rule of the cascade there
\* are a draw of `rand` and a vegetation density for which that rule is the
\* one that places in the cell.
C26_EveryRuleReachable ==
    returned =>
       \A k \in 1..Len(Rules) :
          \E rand \in RandCuts, veg \in VegCuts :
             \E d \in DrawsFor(rand, veg) :
                RulesRun(rand, veg, d) = {Rules[k]}

\* ------------------------------------------------------------------------
\* Claims on the coral colours (SpecTerrain)
\* ------------------------------------------------------------------------
\* The CSS string of the colour in the three entries of the colour array
\* that belong to coral voxel v.
VoxelCss(lay, v) ==
    HexToCss(lay.coralColors[3 * v - 2] * 65536
             + lay.coralColors[3 * v - 1] * 256
             + lay.coralColors[3 * v])

CoralPOIsAt(lay, x, z) ==
    {k \in 1..Len(lay.mapPOIs) :
        /\ lay.mapPOIs[k].type = "coral"
        /\ lay.mapPOIs[k].x = x
        /\ lay.mapPOIs[k].z = z}

\* C30: in the layout returned, the colour array has three entries per
\* coral voxel, and every voxel of a formation has the colour that the
\* formation's one point of interest records.
C30_ColoursParallel ==
    returned =>
       /\ Len(layout.coralColors) = 3 * Len(layout.coralInstances)
       /\ \A v \in 1..Len(layout.coralInstances) :
             LET at == CoralPOIsAt(layout, layout.coralInstances[v][1],
                                   layout.coralInstances[v][3])
             IN  /\ Cardinality(at) = 1
                 /\ 3 * v <= Len(layout.coralColors)
                 /\ \A k \in at : layout.mapPOIs[k].color = VoxelCss(layout, v)

\* C30 witness: a layout with a formation of three voxels in one colour
\* and a formation of one voxel in the other.
C30_Witness ==
    /\ returned
    /\ Len(layout.coralInstances) = 4
    /\ layout.mapPOIs =
          <<POI(layout.coralInstances[1][1], layout.coralInstances[1][3],
                "coral", "#b5ead7"),
            POI(layout.coralInstances[4][1], layout.coralInstances[4][3],
                "coral", "#f472b6")>>
    /\ layout.coralInstances[3][1] = layout.coralInstances[1][1]
    /\ layout.coralInstances[3][3] = layout.coralInstances[1][3]

\* ------------------------------------------------------------------------
\* Claims on the tutorial (SpecTutorial)
\* ------------------------------------------------------------------------
\* C28 as stated: the tutorial's current step is one of the seven steps,
\* 0..6, whatever the order of Next clicks and narration timers.
C28_StepInRange == tutorial.currentStep \in 0..(StepCount - 1)

====
